---- MODULE Spec2Model ----
(***************************************************************************)
(* Tournament scheduling engine of src/lib/scheduler.ts.                   *)
(*                                                                         *)
(*   - generateRoundsForGroup  : Circle Method pairing generator           *)
(*   - generateTimeBoxedSchedule / scheduleTimeBoxedMatchesForArea /       *)
(*     selectNextGroup / findBestPairForGroup : greedy time-boxed path     *)
(*   - validateMinRestBetweenFights, computeAthleteStats,                  *)
(*     computeTimeBoxedStats : validation and statistics                   *)
(*                                                                         *)
(* Athletes are identified by their id (the name is display-only and is    *)
(* left out).  Times of day "HH:MM" are pairs <<h, m>>.  JavaScript        *)
(* numbers that are quotients (averages, scores, percentages) are kept as  *)
(* exact fractions [num, den]; for groups of up to 4 athletes the double   *)
(* arithmetic of the source orders them exactly as the fractions do.       *)
(* Array.prototype.sort is taken to be stable (ES2019).                    *)
(***************************************************************************)
EXTENDS Integers, Sequences, FiniteSets, TLC

VARIABLES
    \* ---- generateRoundsForGroup (one call) ----
    athletes,        \* parameter: the roster, a sequence of athlete ids
    cyclesPerGroup,  \* parameter
    participants,    \* roster, padded with BYE when odd
    indexes,         \* the circular index array
    cycle,           \* outer loop counter (1-based)
    round,           \* inner loop counter (0-based)
    rounds,          \* result array
    rrPc,            \* "idle" | "call" | "loop" | "done"
    \* ---- generateTimeBoxedSchedule (one call) ----
    event,           \* parameter: the Event
    pc,              \* "idle" | "start" | "areas" | "loop" | "done"
    areaIdx,         \* position of `for (const area of event.areas)`
    groups,          \* validGroups handed to scheduleTimeBoxedMatchesForArea
    groupStates,     \* Map groupId -> GroupSchedulingState
    currentTime,     \* the virtual clock of the area pass
    sequenceNumber,  \* per-area sequence counter
    entries,         \* entries of the area pass in progress
    allEntries,      \* entries of the areas already finished
    warnings,        \* warnings accumulated so far
    schedule,        \* the returned Schedule (<<>> until the call returns)
    lastStep,        \* what the last loop iteration did
    iterations,      \* loop iterations of the area pass in progress
    firstRun,        \* result of an earlier call on the same event, if any
    \* ---- generateFullSchedule / scheduleRoundsForMultiGroupArea (one call) ----
    groupRounds,     \* the rounds generated for each group of the area
    roundIdx,        \* position of `for (let roundIdx = 0; ...)`
    grIdx,           \* position of `for (const gr of groupRounds)`
    \* ---- validateMinRestBetweenFights and computeAthleteStats (one call of each
    \*      on any entry list) ----
    valEntries,      \* parameter: the entries
    valMinRest,      \* parameter: minRestSeconds
    valWarnings,     \* the returned warnings
    valStats,        \* the returned athlete stats
    valPc,           \* "idle" | "call" | "done"
    \* ---- utils.ts ----
    idCount          \* number of generateId calls so far in this process

varsRR == <<athletes, cyclesPerGroup, participants, indexes, cycle, round, rounds, rrPc>>
varsTB == <<event, pc, areaIdx, groups, groupStates, currentTime, sequenceNumber,
            entries, allEntries, warnings, schedule, lastStep, iterations,
            firstRun>>
varsLG == <<groupRounds, roundIdx, grIdx>>
varsVal == <<valEntries, valMinRest, valWarnings, valStats, valPc>>
varsAux == <<varsLG, varsVal>>
vars == <<varsRR, varsTB, varsAux, idCount>>

----------------------------------------------------------------------------
\* Bounds of the model

\* largest roster handed to generateRoundsForGroup
MaxRoster == 6
\* largest cyclesPerGroup
MaxCycles == 3

----------------------------------------------------------------------------
\* Generic helpers

AthleteIdPool == <<"A", "B", "C", "D", "E", "F", "G", "H", "I", "J", "K", "L">>

Roster(n) == SubSeq(AthleteIdPool, 1, n)

BYE == "BYE"

Abs(x) == IF x < 0 THEN -x ELSE x

RECURSIVE Flatten(_)
Flatten(ss) == IF ss = <<>> THEN <<>> ELSE Head(ss) \o Flatten(Tail(ss))

RECURSIVE SumSeq(_)
SumSeq(s) == IF s = <<>> THEN 0 ELSE Head(s) + SumSeq(Tail(s))

Range(s) == {s[i] : i \in DOMAIN s}

\* the sum of the second components of a set of <<key, number>> pairs
RECURSIVE SumSet(_)
SumSet(S) == IF S = {} THEN 0
             ELSE LET x == CHOOSE y \in S : TRUE IN x[2] + SumSet(S \ {x})

\* utils.ts generateId: `${prefix}_${Date.now()}_${Math.random()...}`.  The
\* timestamp/random suffix is modelled by the serial number of the call: every
\* id is fresh, and a later call never repeats an earlier id.
generateId(prefix, serial) == <<prefix, serial>>

\* the number of ordered pairs: n * (n - 1), not halved
combinationsOrdered(n) == IF n < 2 THEN 0 ELSE n * (n - 1)

\* utils.ts combinations
combinations(n) == IF n < 2 THEN 0 ELSE (n * (n - 1)) \div 2

----------------------------------------------------------------------------
\* generateRoundsForGroup (Circle Method)

GroupIdRR == "g1"

\* the loop of line 67 run over every position but the last
RECURSIVE roundMatchesEveryPosition(_, _, _, _, _, _, _)
roundMatchesEveryPosition(parts, gid, idx, i, cyc, rnd, serial) ==
    IF i >= Len(parts) - 1 THEN <<>>
    ELSE LET home == parts[idx[i + 1] + 1]
             away == parts[idx[Len(parts) - 1 - i + 1] + 1]
         IN IF home = BYE \/ away = BYE
            THEN roundMatchesEveryPosition(parts, gid, idx, i + 1, cyc, rnd, serial)
            ELSE << [id |-> generateId(<<"match", gid, cyc, rnd>>, serial + 1),
                     groupId |-> gid,
                     athlete1Id |-> home,
                     athlete2Id |-> away,
                     cycle |-> cyc] >>
                 \o roundMatchesEveryPosition(parts, gid, idx, i + 1, cyc, rnd, serial + 1)

\* the matches of one round with the BYE matches kept
RECURSIVE roundMatchesKeepBye(_, _, _, _, _, _, _)
roundMatchesKeepBye(parts, gid, idx, i, cyc, rnd, serial) ==
    IF 2 * i >= Len(parts) THEN <<>>
    ELSE LET home == parts[idx[i + 1] + 1]
             away == parts[idx[Len(parts) - 1 - i + 1] + 1]
         IN << [id |-> generateId(<<"match", gid, cyc, rnd>>, serial + 1),
                groupId |-> gid,
                athlete1Id |-> home,
                athlete2Id |-> away,
                cycle |-> cyc] >>
            \o roundMatchesKeepBye(parts, gid, idx, i + 1, cyc, rnd, serial + 1)

\* lines 67-84: the matches of one round, BYE matches dropped
RECURSIVE roundMatches(_, _, _, _, _, _, _)
roundMatches(parts, gid, idx, i, cyc, rnd, serial) ==
    IF 2 * i >= Len(parts) THEN <<>>
    ELSE LET home == parts[idx[i + 1] + 1]
             away == parts[idx[Len(parts) - 1 - i + 1] + 1]
         IN IF home = BYE \/ away = BYE
            THEN roundMatches(parts, gid, idx, i + 1, cyc, rnd, serial)
            ELSE << [id |-> generateId(<<"match", gid, cyc, rnd>>, serial + 1),
                     groupId |-> gid,
                     athlete1Id |-> home,
                     athlete2Id |-> away,
                     cycle |-> cyc] >>
                 \o roundMatches(parts, gid, idx, i + 1, cyc, rnd, serial + 1)

\* a rotation that moves the first position too
rotateAll(idx) ==
    LET n == Len(idx)
    IN <<idx[n]>> \o SubSeq(idx, 1, n - 1)

\* line 93: indexes.splice(1, 0, indexes.pop())
rotate(idx) ==
    LET n == Len(idx)
    IN <<idx[1], idx[n]>> \o SubSeq(idx, 2, n - 1)

\* one round too many per cycle
numRoundsPlusOne == Len(participants)

\* lines 57-58
numRounds == Len(participants) - 1

\* a round number that starts again at 1 in every cycle
roundNumberWithinCycle(cyc, rnd, nr) == rnd + 1

\* line 87: cycle is 1-based, round 0-based, nr is numRounds
roundNumber(cyc, rnd, nr) == (cyc - 1) * nr + rnd + 1

\* generateRoundsForGroup as a function: the rounds from (cyc, rnd) on
RECURSIVE roundsFrom(_, _, _, _, _, _, _)
roundsFrom(parts, gid, idx, cyc, rnd, cycles, serial) ==
    IF cyc > cycles THEN <<>>
    ELSE LET ms == roundMatches(parts, gid, idx, 0, cyc, rnd, serial)
             nr == Len(parts) - 1
             last == ~(rnd + 1 < nr)
         IN << [roundNumber |-> roundNumber(cyc, rnd, nr),
                groupId |-> gid,
                matches |-> ms] >>
            \o roundsFrom(parts, gid, rotate(idx),
                          IF last THEN cyc + 1 ELSE cyc,
                          IF last THEN 0 ELSE rnd + 1,
                          cycles, serial + Len(ms))

\* lines 36-98; `serial` is the number of ids generated before the call
generateRoundsForGroup(aths, gid, cycles, serial) ==
    IF Len(aths) < 2 THEN <<>>
    ELSE LET parts == IF Len(aths) % 2 = 1 THEN Append(aths, BYE) ELSE aths
         IN roundsFrom(parts, gid, [i \in 1..Len(parts) |-> i - 1], 1, 0, cycles, serial)

RRInit ==
    /\ athletes \in {Roster(n) : n \in 0..MaxRoster}
    /\ cyclesPerGroup \in 1..MaxCycles
    /\ participants = <<>>
    /\ indexes = <<>>
    /\ cycle = 0
    /\ round = 0
    /\ rounds = <<>>
    /\ rrPc = "call"

\* lines 41-61: early return, BYE padding, index array
RRSetup ==
    /\ rrPc = "call"
    /\ IF Len(athletes) < 2
       THEN /\ rrPc' = "done"
            /\ UNCHANGED <<participants, indexes, cycle, round>>
       ELSE /\ participants' = IF Len(athletes) % 2 = 1
                               THEN Append(athletes, BYE)
                               ELSE athletes
            /\ indexes' = [i \in 1..Len(participants') |-> i - 1]
            /\ cycle' = 1
            /\ round' = 0
            /\ rrPc' = "loop"
    /\ UNCHANGED <<athletes, cyclesPerGroup, rounds, idCount>>

\* lines 63-95: one iteration of the inner loop (build the round, push it, rotate)
RRRound ==
    /\ rrPc = "loop"
    /\ LET ms == roundMatches(participants, GroupIdRR, indexes, 0, cycle, round, idCount)
       IN /\ rounds' = Append(rounds, [roundNumber |-> roundNumber(cycle, round, numRounds),
                                       groupId |-> GroupIdRR,
                                       matches |-> ms])
          /\ idCount' = idCount + Len(ms)
    /\ indexes' = rotate(indexes)
    /\ IF round + 1 < numRounds
       THEN /\ round' = round + 1
            /\ UNCHANGED <<cycle, rrPc>>
       ELSE /\ round' = 0
            /\ cycle' = cycle + 1
            /\ rrPc' = IF cycle + 1 <= cyclesPerGroup THEN "loop" ELSE "done"
    /\ UNCHANGED <<athletes, cyclesPerGroup, participants>>

RRIdle ==
    /\ athletes = <<>>
    /\ cyclesPerGroup = 1
    /\ participants = <<>>
    /\ indexes = <<>>
    /\ cycle = 0
    /\ round = 0
    /\ rounds = <<>>
    /\ rrPc = "idle"

----------------------------------------------------------------------------
\* Events

\* largest window, in minutes after the 09:00 start
MaxWindowMinutes == 5
\* most groups of an area
MaxGroups == 2
\* most athletes of a group
MaxGroupSize == 4
\* most athletes of an area
MaxAthletes == 6

FightDurations == {30, 120}
RotationTimes == {0, 30}
\* <<>>: minRestBetweenFightsSeconds is absent from the Event
MinRestOptions == {<<>>, <<30>>, <<200>>}

AreaIdPool == <<"a1", "a2", "a3", "a4">>
GroupIdPool == <<"g1", "g2", "g3", "g4", "g5", "g6", "g7", "g8">>

EmptyMap == [x \in {} |-> x]

\* The shape of an area: the sizes of its groups, in order.
AreaShapes ==
    {sizes \in UNION {[1..k -> 0..MaxGroupSize] : k \in 0..MaxGroups} :
        SumSeq(sizes) <= MaxAthletes}

\* A layout is a sequence of area shapes.  The areas of a layout: ids are
\* unique over the event, athletes are named in event order.
RECURSIVE LayoutGroupSeq(_, _, _, _)
LayoutGroupSeq(sizes, aid, g0, b0) ==
    IF sizes = <<>> THEN <<>>
    ELSE << [id |-> GroupIdPool[g0 + 1],
             areaId |-> aid,
             athletes |-> SubSeq(AthleteIdPool, b0 + 1, b0 + Head(sizes))] >>
         \o LayoutGroupSeq(Tail(sizes), aid, g0 + 1, b0 + Head(sizes))

RECURSIVE LayoutAreaSeq(_, _, _, _)
LayoutAreaSeq(l, i, g0, b0) ==
    IF l = <<>> THEN <<>>
    ELSE << [id |-> AreaIdPool[i],
             groups |-> LayoutGroupSeq(Head(l), AreaIdPool[i], g0, b0)] >>
         \o LayoutAreaSeq(Tail(l), i + 1, g0 + Len(Head(l)), b0 + SumSeq(Head(l)))

LayoutAreas(l) == LayoutAreaSeq(l, 1, 0, 0)

\* events with a single area
Layouts == {<<shape>> : shape \in AreaShapes}

MakeEvent(l, fd, rot, endT, mr) ==
    IF mr = <<>>
    THEN [id |-> "ev", fightDuration |-> fd, rotationTime |-> rot,
          startTime |-> <<9, 0>>, endTime |-> endT, areas |-> LayoutAreas(l)]
    ELSE [id |-> "ev", fightDuration |-> fd, rotationTime |-> rot,
          startTime |-> <<9, 0>>, endTime |-> endT, areas |-> LayoutAreas(l),
          minRestBetweenFightsSeconds |-> mr[1]]

\* fightDuration 120 s, rotation 30 s, window 09:00-12:00, minRest 0, one group of 4
ScenarioB == MakeEvent(<< <<4>> >>, 120, 30, <<12, 0>>, <<0>>)

SmallEvents ==
    {MakeEvent(l, fd, rot, <<9, k>>, mr) :
        l \in Layouts, fd \in FightDurations, rot \in RotationTimes,
        k \in 0..MaxWindowMinutes, mr \in MinRestOptions}

Events == SmallEvents \cup {ScenarioB}

----------------------------------------------------------------------------
\* utils.ts

\* parseTime("HH:MM")
parseTime(t) == t[1] * 3600 + t[2] * 60

\* formatTime(seconds): "HH:MM", the seconds are dropped
formatTime(s) == <<s \div 3600, (s % 3600) \div 60>>

----------------------------------------------------------------------------
\* Fractions

Frac(n, d) == [num |-> n, den |-> d]
FracLess(a, b) == a.num * b.den < b.num * a.den

\* Array.prototype.sort with comparator (a, b) => key(a) - key(b): stable.
\* keys[k] is the key of seq[k]; an element goes before another when its key is
\* smaller, or the keys are equal and it came first.
StableSort(seq, keys) ==
    LET n == Len(seq)
        rank(i) == Cardinality({j \in 1..n :
                       \/ FracLess(keys[j], keys[i])
                       \/ (~FracLess(keys[i], keys[j]) /\ j < i)})
    IN [p \in 1..n |-> seq[CHOOSE i \in 1..n : rank(i) = p - 1]]

----------------------------------------------------------------------------
\* Time-boxed greedy scheduler

NULL == "null"

\* event.minRestBetweenFightsSeconds ?? 0
minRestSeconds ==
    IF "minRestBetweenFightsSeconds" \in DOMAIN event
    THEN event.minRestBetweenFightsSeconds
    ELSE 0

startTimeSeconds == parseTime(event.startTime)
endTimeSeconds == parseTime(event.endTime)

\* the (i, j) pairs of the double loop of findBestPairForGroup, in loop order
RECURSIVE PairIndexes(_, _, _)
PairIndexes(i, j, n) ==
    IF i >= n THEN <<>>
    ELSE IF j > n THEN PairIndexes(i + 1, i + 2, n)
    ELSE << <<i, j>> >> \o PairIndexes(i, j + 1, n)

\* a rest check that looks at the first athlete only
restOkFirstOnly(state1, state2, now) ==
    ~(state1.availableAt > now)

\* lines 476-482: the rest check of a pair (TRUE: both athletes are available)
restOk(state1, state2, now) ==
    ~(state1.availableAt > now \/ state2.availableAt > now)

\* a score that does not depend on the match counts
fairnessScoreFlat(state1, state2, avgMatchCount) ==
    Frac(0, avgMatchCount.den)

\* a score that looks at the first athlete of the pair only
fairnessScoreFirstAthlete(state1, state2, avgMatchCount) ==
    Frac(state1.matchCount * 10 * avgMatchCount.den, avgMatchCount.den)

\* lines 487-494: fairnessScore = matchCountScore + balancePenalty, as a fraction
\* over the denominator of avgMatchCount
fairnessScore(state1, state2, avgMatchCount) ==
    LET matchCountScore == (state1.matchCount + state2.matchCount) * 10
        balancePenaltyNum ==
            Abs(state1.matchCount * avgMatchCount.den - avgMatchCount.num)
            + Abs(state2.matchCount * avgMatchCount.den - avgMatchCount.num)
    IN Frac(matchCountScore * avgMatchCount.den + balancePenaltyNum, avgMatchCount.den)

\* lines 461-510: the candidate pairs that pass the rest check, in loop order
Candidates(group, state, now) ==
    LET n == Len(group.athletes)
        avgMatchCount == IF n > 0 THEN Frac(state.totalMatches, n) ELSE Frac(0, 1)
        ok(p) == restOk(state.athleteStates[group.athletes[p[1]]],
                        state.athleteStates[group.athletes[p[2]]], now)
        cand(p) ==
            LET athlete1 == group.athletes[p[1]]
                athlete2 == group.athletes[p[2]]
                state1 == state.athleteStates[athlete1]
                state2 == state.athleteStates[athlete2]
            IN [athlete1 |-> athlete1,
                athlete2 |-> athlete2,
                fairnessScore |-> fairnessScore(state1, state2, avgMatchCount),
                isRematch |-> athlete2 \in state1.opponents]
        idx == SelectSeq(PairIndexes(1, 2, n), ok)
    IN [k \in 1..Len(idx) |-> cand(idx[k])]

\* the candidates sorted by decreasing score
fairnessScoresDescending(cs) ==
    [k \in 1..Len(cs) |-> Frac(0 - cs[k].fairnessScore.num, cs[k].fairnessScore.den)]

\* line 523: the sort key of the candidates
fairnessScores(cs) == [k \in 1..Len(cs) |-> cs[k].fairnessScore]

\* the priority of lines 512-520 reversed
selectedCandidatesRematchFirst(candidatesNewOpponents, candidatesRematches) ==
    IF Len(candidatesRematches) > 0
    THEN candidatesRematches
    ELSE IF Len(candidatesNewOpponents) > 0
    THEN candidatesNewOpponents
    ELSE <<>>

\* no priority: the rematches and the new opponents compete on the score alone
selectedCandidatesMixed(candidatesNewOpponents, candidatesRematches) ==
    candidatesRematches \o candidatesNewOpponents

\* lines 512-520: new opponents first, rematches only when there is none
selectedCandidates(candidatesNewOpponents, candidatesRematches) ==
    IF Len(candidatesNewOpponents) > 0
    THEN candidatesNewOpponents
    ELSE IF Len(candidatesRematches) > 0
    THEN candidatesRematches
    ELSE <<>>

\* findBestPairForGroup: <<>> stands for null, <<c>> for the candidate c
findBestPairForGroup(group, state, now, minRest) ==
    LET all == Candidates(group, state, now)
        selected == selectedCandidates(SelectSeq(all, LAMBDA c : ~c.isRematch),
                                       SelectSeq(all, LAMBDA c : c.isRematch))
    IN IF selected = <<>>
       THEN <<>>
       ELSE <<StableSort(selected, fairnessScores(selected))[1]>>

\* the eligible groups compared on their number of matches, not on the average
avgMatchesNotDivided(ms) == [k \in 1..Len(ms) |-> Frac(ms[k].avgMatchesPerAthlete.num, 1)]

\* line 567: the sort key of the eligible groups
avgMatches(ms) == [k \in 1..Len(ms) |-> ms[k].avgMatchesPerAthlete]

\* the first group that has a valid pair, whatever its average
selectNextGroupFirstEligible(gs, states, now, minRest) ==
    LET eligible == SelectSeq(gs, LAMBDA group :
                        findBestPairForGroup(group, states[group.id], now, minRest) # <<>>)
    IN IF Len(eligible) = 0 THEN NULL ELSE eligible[1].id

\* selectNextGroup: the id of the chosen group, or NULL
selectNextGroup(gs, states, now, minRest) ==
    LET metrics ==
            [k \in 1..Len(gs) |->
                LET group == gs[k]
                    state == states[group.id]
                    n == Len(group.athletes)
                IN [groupId |-> group.id,
                    avgMatchesPerAthlete |->
                        IF n > 0 THEN Frac(state.totalMatches, n) ELSE Frac(0, 1),
                    hasValidPairs |->
                        findBestPairForGroup(group, state, now, minRest) # <<>>]]
        eligible == SelectSeq(metrics, LAMBDA m : m.hasValidPairs)
    IN IF Len(eligible) = 0
       THEN NULL
       ELSE StableSort(eligible, avgMatches(eligible))[1].groupId

----------------------------------------------------------------------------
\* Validation and statistics

SeqMin(s) == CHOOSE x \in Range(s) : \A y \in Range(s) : x <= y
SeqMax(s) == CHOOSE x \in Range(s) : \A y \in Range(s) : x >= y

\* lines 179 and 223: the sort key of the entries of an athlete
startTimes(es) == [k \in 1..Len(es) |-> Frac(es[k].startTimeSeconds, 1)]

\* the entries of an athlete in list order, not sorted by start time
athleteMatchesUnsorted(es, id) ==
    SelectSeq(es, LAMBDA e : e.athlete1Id = id \/ e.athlete2Id = id)

\* entries.filter(athlete1Id === id || athlete2Id === id).sort(by start)
athleteMatches(es, id) ==
    LET mine == SelectSeq(es, LAMBDA e : e.athlete1Id = id \/ e.athlete2Id = id)
    IN StableSort(mine, startTimes(mine))

\* event.areas.flatMap(a => a.groups.flatMap(g => g.athletes))
allAthletes(ev) ==
    Flatten([i \in 1..Len(ev.areas) |->
        Flatten([j \in 1..Len(ev.areas[i].groups) |->
            LET g == ev.areas[i].groups[j]
            IN [k \in 1..Len(g.athletes) |-> [id |-> g.athletes[k], groupId |-> g.id]]])])

\* all groups of the event, in Map insertion order
allGroups(ev) == Flatten([i \in 1..Len(ev.areas) |-> ev.areas[i].groups])

\* a rest measured from start to start
restSecondsStartToStart(prev, curr) == curr.startTimeSeconds - prev.startTimeSeconds

\* line 186
restSeconds(prev, curr) == curr.startTimeSeconds - prev.endTimeSeconds

\* validateMinRestBetweenFights
validateMinRestBetweenFights(es, aths, minRest) ==
    IF minRest <= 0 THEN <<>>
    ELSE Flatten([a \in 1..Len(aths) |->
        LET ms == athleteMatches(es, aths[a].id)
            viol == SelectSeq([i \in 1..(IF Len(ms) > 0 THEN Len(ms) - 1 ELSE 0) |-> i],
                        LAMBDA i : restSeconds(ms[i], ms[i + 1]) < minRest)
        IN [v \in 1..Len(viol) |->
              [type |-> "REST_VIOLATION",
               severity |-> "warning",
               message |-> "repos",
               restSeconds |-> restSeconds(ms[viol[v]], ms[viol[v] + 1]),
               affectedItems |-> <<aths[a].id, ms[viol[v]].id, ms[viol[v] + 1].id>>]]])

\* computeAthleteStats (every athlete's group is in groupsMap: the map is built
\* from the same event)
computeAthleteStats(es, aths, minRest) ==
    LET with == SelectSeq(aths, LAMBDA a : Len(athleteMatches(es, a.id)) > 0)
    IN [k \in 1..Len(with) |->
        LET ms == athleteMatches(es, with[k].id)
            restTimes == [i \in 1..(Len(ms) - 1) |->
                            ms[i + 1].startTimeSeconds - ms[i].endTimeSeconds]
        IN [athleteId |-> with[k].id,
            groupId |-> with[k].groupId,
            matchCount |-> Len(ms),
            minRestSeconds |-> IF Len(restTimes) > 0 THEN SeqMin(restTimes) ELSE 0,
            maxRestSeconds |-> IF Len(restTimes) > 0 THEN SeqMax(restTimes) ELSE 0,
            avgRestSeconds |-> IF Len(restTimes) > 0
                               THEN Frac(SumSeq(restTimes), Len(restTimes))
                               ELSE Frac(0, 1),
            totalRestSeconds |-> SumSeq(restTimes),
            consecutiveMatchesCount |->
                Len(SelectSeq(restTimes, LAMBDA r : r < minRest))]]

\* lines 929-945: per-area stats
\* a duration that counts the rotation after the last fight
realizedDurationWithRotation(es) ==
    IF Len(es) > 0
    THEN es[Len(es)].endTimeSeconds + event.rotationTime - es[1].startTimeSeconds
    ELSE 0

\* lines 931-935 and 819-822: end of the last entry minus start of the first
realizedDuration(es) ==
    IF Len(es) > 0
    THEN es[Len(es)].endTimeSeconds - es[1].startTimeSeconds
    ELSE 0

computeAreaStats(es, ev) ==
    [i \in 1..Len(ev.areas) |->
        LET areaEntries == SelectSeq(es, LAMBDA e : e.areaId = ev.areas[i].id)
            duration == realizedDuration(areaEntries)
            available == parseTime(ev.endTime) - parseTime(ev.startTime)
        IN [areaId |-> ev.areas[i].id,
            matchCount |-> Len(areaEntries),
            duration |-> duration,
            marginOrOverflow |-> available - duration]]

\* stats of one group that count an athlete only on the athlete1 side
groupTimeBoxedStatsFirstSideOnly(es, group) ==
    LET groupEntries == SelectSeq(es, LAMBDA e : e.groupId = group.id)
        n == Len(group.athletes)
        matchCounts == [k \in 1..n |->
            Len(SelectSeq(groupEntries, LAMBDA e : e.athlete1Id = group.athletes[k]))]
        minMatches == IF n > 0 THEN SeqMin(matchCounts) ELSE 0
        maxMatches == IF n > 0 THEN SeqMax(matchCounts) ELSE 0
        theoreticalMax == combinations(n)
    IN [groupId |-> group.id,
        athleteCount |-> n,
        totalMatches |-> Len(groupEntries),
        theoreticalMax |-> theoreticalMax,
        completenessPercentage |-> IF theoreticalMax > 0
                                   THEN Frac(Len(groupEntries) * 100, theoreticalMax)
                                   ELSE Frac(100, 1),
        minMatchesPerAthlete |-> minMatches,
        maxMatchesPerAthlete |-> maxMatches,
        avgMatchesPerAthlete |-> IF n > 0 THEN Frac(SumSeq(matchCounts), n) ELSE Frac(0, 1),
        matchCountGap |-> maxMatches - minMatches,
        matchCounts |-> matchCounts]

\* lines 755-801: stats of one group
groupTimeBoxedStats(es, group) ==
    LET groupEntries == SelectSeq(es, LAMBDA e : e.groupId = group.id)
        n == Len(group.athletes)
        matchCounts == [k \in 1..n |->
            Len(SelectSeq(groupEntries, LAMBDA e : e.athlete1Id = group.athletes[k]))
            + Len(SelectSeq(groupEntries, LAMBDA e : e.athlete2Id = group.athletes[k]))]
        minMatches == IF n > 0 THEN SeqMin(matchCounts) ELSE 0
        maxMatches == IF n > 0 THEN SeqMax(matchCounts) ELSE 0
        theoreticalMax == combinations(n)
    IN [groupId |-> group.id,
        athleteCount |-> n,
        totalMatches |-> Len(groupEntries),
        theoreticalMax |-> theoreticalMax,
        completenessPercentage |-> IF theoreticalMax > 0
                                   THEN Frac(Len(groupEntries) * 100, theoreticalMax)
                                   ELSE Frac(100, 1),
        minMatchesPerAthlete |-> minMatches,
        maxMatchesPerAthlete |-> maxMatches,
        avgMatchesPerAthlete |-> IF n > 0 THEN Frac(SumSeq(matchCounts), n) ELSE Frac(0, 1),
        matchCountGap |-> maxMatches - minMatches,
        matchCounts |-> matchCounts]

\* computeTimeBoxedStats
computeTimeBoxedStats(es, ev) ==
    LET gs == allGroups(ev)
        groupStats == [k \in 1..Len(gs) |-> groupTimeBoxedStats(es, gs[k])]
        allMatchCounts == Flatten([k \in 1..Len(gs) |-> groupStats[k].matchCounts])
        \* pairKey = [athlete1Id, athlete2Id].sort().join('-'): the unordered pair
        pairKeys == {{es[i].athlete1Id, es[i].athlete2Id} : i \in 1..Len(es)}
        pairMatchCounts(key) ==
            Cardinality({i \in 1..Len(es) : {es[i].athlete1Id, es[i].athlete2Id} = key})
        globalMin == IF Len(allMatchCounts) > 0 THEN SeqMin(allMatchCounts) ELSE 0
        globalMax == IF Len(allMatchCounts) > 0 THEN SeqMax(allMatchCounts) ELSE 0
        totalTheoretical == SumSeq([k \in 1..Len(gs) |-> groupStats[k].theoreticalMax])
        totalScheduled == Len(es)
        timeAvailable == parseTime(ev.endTime) - parseTime(ev.startTime)
        timeUsed == realizedDuration(es)
    IN [minMatchesPerAthlete |-> globalMin,
        maxMatchesPerAthlete |-> globalMax,
        avgMatchesPerAthlete |-> IF Len(allMatchCounts) > 0
                                 THEN Frac(SumSeq(allMatchCounts), Len(allMatchCounts))
                                 ELSE Frac(0, 1),
        matchCountGap |-> globalMax - globalMin,
        groupStats |-> [k \in 1..Len(gs) |->
                          [f \in DOMAIN groupStats[k] \ {"matchCounts"} |-> groupStats[k][f]]],
        totalMatchesScheduled |-> totalScheduled,
        totalTheoreticalMatches |-> totalTheoretical,
        overallCompletenessPercentage |-> IF totalTheoretical > 0
                                          THEN Frac(totalScheduled * 100, totalTheoretical)
                                          ELSE Frac(100, 1),
        rematchesCount |-> SumSet({<<key, pairMatchCounts(key) - 1>> : key \in
                                      {q \in pairKeys : pairMatchCounts(q) > 1}}),
        timeUsedSeconds |-> timeUsed,
        timeAvailableSeconds |-> timeAvailable,
        timeUtilizationPercentage |-> IF timeAvailable > 0
                                      THEN Frac(timeUsed * 100, timeAvailable)
                                      ELSE Frac(0, 1)]

----------------------------------------------------------------------------
\* generateTimeBoxedSchedule

TBInit ==
    /\ event \in Events
    /\ pc = "start"
    /\ areaIdx = 0
    /\ groups = <<>>
    /\ groupStates = EmptyMap
    /\ currentTime = 0
    /\ sequenceNumber = 0
    /\ entries = <<>>
    /\ allEntries = <<>>
    /\ warnings = <<>>
    /\ schedule = <<>>
    /\ lastStep = "none"
    /\ iterations = 0
    /\ firstRun = <<>>

TBIdle ==
    /\ event = MakeEvent(<< <<>> >>, 120, 30, <<9, 0>>, <<>>)
    /\ pc = "idle"
    /\ areaIdx = 0
    /\ groups = <<>>
    /\ groupStates = EmptyMap
    /\ currentTime = 0
    /\ sequenceNumber = 0
    /\ entries = <<>>
    /\ allEntries = <<>>
    /\ warnings = <<>>
    /\ schedule = <<>>
    /\ lastStep = "none"
    /\ iterations = 0
    /\ firstRun = <<>>

\* the test of line 856 with >= in place of >
insufficientTimeInclusive == startTimeSeconds + event.fightDuration >= endTimeSeconds

\* line 856
insufficientTime == startTimeSeconds + event.fightDuration > endTimeSeconds

\* lines 850-879: the hard feasibility check
TBStart ==
    /\ pc = "start"
    /\ IF insufficientTime
       THEN LET w == <<[type |-> "TIME_OVERFLOW",
                        severity |-> "error",
                        message |-> "Temps insuffisant",
                        affectedItems |-> <<event.id>>]>>
            IN /\ warnings' = w
               /\ schedule' = <<[eventId |-> event.id,
                                 entries |-> <<>>,
                                 stats |-> [totalMatches |-> 0,
                                            totalDuration |-> 0,
                                            areaStats |-> <<>>,
                                            athleteStats |-> <<>>],
                                 warnings |-> w]>>
               /\ pc' = "done"
               /\ UNCHANGED areaIdx
       ELSE /\ pc' = "areas"
            /\ areaIdx' = 1
            /\ UNCHANGED <<warnings, schedule>>
    /\ UNCHANGED <<event, groups, groupStates, currentTime, sequenceNumber, entries,
                   allEntries, lastStep, iterations, firstRun, idCount>>

area == event.areas[areaIdx]

\* no filter: every group of the area is handed to the area pass
validGroupsUnfiltered == area.groups

\* line 888
validGroups == SelectSeq(area.groups, LAMBDA g : Len(g.athletes) >= 2)

\* line 885: an area without groups is passed over
AreaSkipEmpty ==
    /\ pc = "areas"
    /\ areaIdx <= Len(event.areas)
    /\ Len(area.groups) = 0
    /\ areaIdx' = areaIdx + 1
    /\ UNCHANGED <<event, pc, groups, groupStates, currentTime, sequenceNumber, entries,
                   allEntries, warnings, schedule, lastStep, iterations, firstRun, idCount>>

\* line 897 as a break: the areas that follow are left out
AreaSkipNoValidGroupBreak ==
    /\ pc = "areas"
    /\ areaIdx <= Len(event.areas)
    /\ Len(area.groups) # 0
    /\ Len(validGroups) = 0
    /\ warnings' = Append(warnings, [type |-> "INFO",
                                     severity |-> "warning",
                                     message |-> "aucun groupe avec au moins 2 athletes",
                                     affectedItems |-> <<area.id>>])
    /\ areaIdx' = Len(event.areas) + 1
    /\ UNCHANGED <<event, pc, groups, groupStates, currentTime, sequenceNumber, entries,
                   allEntries, schedule, lastStep, iterations, firstRun, idCount>>

\* lines 890-898: no group of the area has two athletes
AreaSkipNoValidGroup ==
    /\ pc = "areas"
    /\ areaIdx <= Len(event.areas)
    /\ Len(area.groups) # 0
    /\ Len(validGroups) = 0
    /\ warnings' = Append(warnings, [type |-> "INFO",
                                     severity |-> "warning",
                                     message |-> "aucun groupe avec au moins 2 athletes",
                                     affectedItems |-> <<area.id>>])
    /\ areaIdx' = areaIdx + 1
    /\ UNCHANGED <<event, pc, groups, groupStates, currentTime, sequenceNumber, entries,
                   allEntries, schedule, lastStep, iterations, firstRun, idCount>>

\* lines 586-608: the initial scheduling state of the groups of an area pass
initialGroupStates(gs, start) ==
    [gid \in {gs[k].id : k \in 1..Len(gs)} |->
        LET group == gs[CHOOSE k \in 1..Len(gs) : gs[k].id = gid]
        IN [groupId |-> gid,
            athleteStates |-> [aid \in Range(group.athletes) |->
                                  [athleteId |-> aid,
                                   matchCount |-> 0,
                                   opponents |-> {},
                                   lastMatchEndTime |-> start,
                                   availableAt |-> start]],
            totalMatches |-> 0,
            lastScheduledTime |-> start]]

\* an area pass that goes on from the clock and the sequence number of the area before
AreaBeginSharedTimeline ==
    /\ pc = "areas"
    /\ areaIdx <= Len(event.areas)
    /\ Len(validGroups) # 0
    /\ groups' = validGroups
    /\ groupStates' = initialGroupStates(validGroups, startTimeSeconds)
    /\ currentTime' = IF allEntries = <<>> THEN startTimeSeconds ELSE currentTime
    /\ sequenceNumber' = IF allEntries = <<>> THEN 0 ELSE sequenceNumber
    /\ entries' = <<>>
    /\ iterations' = 0
    /\ lastStep' = "begin"
    /\ pc' = "loop"
    /\ UNCHANGED <<event, areaIdx, allEntries, warnings, schedule, firstRun, idCount>>

\* lines 900-908 and 584-611: scheduleTimeBoxedMatchesForArea is entered
AreaBegin ==
    /\ pc = "areas"
    /\ areaIdx <= Len(event.areas)
    /\ Len(validGroups) # 0
    /\ groups' = validGroups
    /\ groupStates' = initialGroupStates(validGroups, startTimeSeconds)
    /\ currentTime' = startTimeSeconds
    /\ sequenceNumber' = 0
    /\ entries' = <<>>
    /\ iterations' = 0
    /\ lastStep' = "begin"
    /\ pc' = "loop"
    /\ UNCHANGED <<event, areaIdx, allEntries, warnings, schedule, firstRun, idCount>>

\* the loop condition without the duration of the fight
LoopConditionStartOnly == currentTime <= endTimeSeconds

\* line 614
LoopCondition == currentTime + event.fightDuration <= endTimeSeconds

selectedGroupId == selectNextGroup(groups, groupStates, currentTime, minRestSeconds)

\* the idle pass moves the clock by one second while an athlete is still resting
nextAvailableTick ==
    IF \E g \in DOMAIN groupStates : \E a \in DOMAIN groupStates[g].athleteStates :
           /\ groupStates[g].athleteStates[a].availableAt > currentTime
           /\ groupStates[g].athleteStates[a].availableAt < endTimeSeconds
    THEN currentTime + 1
    ELSE endTimeSeconds

\* the latest availability before the end of the window, not the nearest
nextAvailableLatest ==
    LET cand == {t \in UNION {{groupStates[g].athleteStates[a].availableAt :
                                  a \in DOMAIN groupStates[g].athleteStates} :
                              g \in DOMAIN groupStates} :
                    t > currentTime /\ t < endTimeSeconds}
    IN IF cand = {} THEN endTimeSeconds
       ELSE CHOOSE t \in cand : \A u \in cand : t >= u

\* lines 626-637
nextAvailable ==
    LET cand == {t \in UNION {{groupStates[g].athleteStates[a].availableAt :
                                  a \in DOMAIN groupStates[g].athleteStates} :
                              g \in DOMAIN groupStates} :
                    t > currentTime /\ t < endTimeSeconds}
    IN IF cand = {} THEN endTimeSeconds
       ELSE CHOOSE t \in cand : \A u \in cand : t <= u

\* the pass returns its entries (line 706) and the caller appends them (line 910)
ReturnFromArea(how) ==
    /\ allEntries' = allEntries \o entries
    /\ entries' = <<>>
    /\ areaIdx' = areaIdx + 1
    /\ lastStep' = how
    /\ pc' = "areas"
    /\ UNCHANGED <<event, groups, groupStates, currentTime, sequenceNumber, warnings,
                   schedule, iterations, firstRun, idCount>>

\* line 614 is false: the loop ends
LoopExit ==
    /\ pc = "loop"
    /\ ~LoopCondition
    /\ ReturnFromArea("exit")

\* the idle pass goes round again without moving the clock
IdleAdvanceNoProgress ==
    /\ pc = "loop"
    /\ LoopCondition
    /\ selectedGroupId = NULL
    /\ nextAvailable < endTimeSeconds
    /\ iterations' = iterations + 1
    /\ lastStep' = "idle"
    /\ UNCHANGED <<event, pc, areaIdx, groups, groupStates, currentTime, sequenceNumber,
                   entries, allEntries, warnings, schedule, firstRun, idCount>>

\* lines 623-645, nextAvailable < endTimeSeconds: the clock jumps
IdleAdvance ==
    /\ pc = "loop"
    /\ LoopCondition
    /\ selectedGroupId = NULL
    /\ nextAvailable < endTimeSeconds
    /\ currentTime' = nextAvailable
    /\ iterations' = iterations + 1
    /\ lastStep' = "idle"
    /\ UNCHANGED <<event, pc, areaIdx, groups, groupStates, sequenceNumber, entries,
                   allEntries, warnings, schedule, firstRun, idCount>>

\* the pass ends as soon as no group can fight at the clock
IdleBreakWithoutLooking ==
    /\ pc = "loop"
    /\ LoopCondition
    /\ selectedGroupId = NULL
    /\ ReturnFromArea("break")

\* lines 639-641: break
IdleBreak ==
    /\ pc = "loop"
    /\ LoopCondition
    /\ selectedGroupId = NULL
    /\ nextAvailable >= endTimeSeconds
    /\ ReturnFromArea("break")

\* an entry numbered from the id counter, which a new run does not reset
makeEntryGlobalSequence(a, gid, pair, now, seq, serial) ==
    [id |-> generateId(<<"entry", a.id>>, serial + 2),
     areaId |-> a.id,
     groupId |-> gid,
     matchId |-> generateId(<<"match", a.id, gid>>, serial + 1),
     sequenceNumber |-> serial \div 2 + 1,
     scheduledTime |-> formatTime(now),
     startTimeSeconds |-> now,
     endTimeSeconds |-> now + event.fightDuration,
     athlete1Id |-> pair.athlete1,
     athlete2Id |-> pair.athlete2]

\* lines 667-681: the ScheduleEntry of a commit
makeEntry(a, gid, pair, now, seq, serial) ==
    [id |-> generateId(<<"entry", a.id>>, serial + 2),
     areaId |-> a.id,
     groupId |-> gid,
     matchId |-> generateId(<<"match", a.id, gid>>, serial + 1),
     sequenceNumber |-> seq,
     scheduledTime |-> formatTime(now),
     startTimeSeconds |-> now,
     endTimeSeconds |-> now + event.fightDuration,
     athlete1Id |-> pair.athlete1,
     athlete2Id |-> pair.athlete2]

\* a commit that records the opponent for the first athlete only
commitStateOneSided(state, pair, now, minRest) ==
    LET matchEndTime == now + event.fightDuration
        upd(st) == [st EXCEPT !.matchCount = @ + 1,
                              !.lastMatchEndTime = matchEndTime,
                              !.availableAt = matchEndTime + minRest]
    IN [state EXCEPT
          !.athleteStates = [@ EXCEPT ![pair.athlete1] =
                                          [upd(@) EXCEPT !.opponents = @ \cup {pair.athlete2}],
                                      ![pair.athlete2] = upd(@)],
          !.totalMatches = @ + 1,
          !.lastScheduledTime = now]

\* a commit after which the whole group rests
commitStateGroupRests(state, pair, now, minRest) ==
    LET matchEndTime == now + event.fightDuration
        upd(st, other) == [st EXCEPT !.matchCount = @ + 1,
                                     !.opponents = @ \cup {other},
                                     !.lastMatchEndTime = matchEndTime]
        fought == [state.athleteStates EXCEPT
                      ![pair.athlete1] = upd(@, pair.athlete2),
                      ![pair.athlete2] = upd(@, pair.athlete1)]
    IN [state EXCEPT
          !.athleteStates = [a \in DOMAIN fought |->
                                [fought[a] EXCEPT !.availableAt = matchEndTime + minRest]],
          !.totalMatches = @ + 1,
          !.lastScheduledTime = now]

\* lines 683-700: the state of a group after a commit of `pair` at `now`
commitState(state, pair, now, minRest) ==
    LET matchEndTime == now + event.fightDuration
        upd(st, other) == [st EXCEPT !.matchCount = @ + 1,
                                     !.opponents = @ \cup {other},
                                     !.lastMatchEndTime = matchEndTime,
                                     !.availableAt = matchEndTime + minRest]
    IN [state EXCEPT
          !.athleteStates = [@ EXCEPT ![pair.athlete1] = upd(@, pair.athlete2),
                                      ![pair.athlete2] = upd(@, pair.athlete1)],
          !.totalMatches = @ + 1,
          !.lastScheduledTime = now]

\* a commit after which the clock moves by the duration of the fight only
CommitNoRotation ==
    /\ pc = "loop"
    /\ LoopCondition
    /\ selectedGroupId # NULL
    /\ LET selectedGroup == groups[CHOOSE k \in 1..Len(groups) : groups[k].id = selectedGroupId]
           groupState == groupStates[selectedGroupId]
           bestPair == findBestPairForGroup(selectedGroup, groupState, currentTime,
                                            minRestSeconds)
       IN IF bestPair = <<>>
          THEN ReturnFromArea("break")
          ELSE /\ sequenceNumber' = sequenceNumber + 1
               /\ idCount' = idCount + 2
               /\ entries' = Append(entries, makeEntry(area, selectedGroupId, bestPair[1],
                                                       currentTime, sequenceNumber + 1,
                                                       idCount))
               /\ groupStates' = [groupStates EXCEPT ![selectedGroupId] =
                                    commitState(@, bestPair[1], currentTime, minRestSeconds)]
               /\ currentTime' = currentTime + event.fightDuration
               /\ iterations' = iterations + 1
               /\ lastStep' = "commit"
               /\ UNCHANGED <<event, pc, areaIdx, groups, allEntries, warnings, schedule,
                              firstRun>>

\* lines 647-703: a match is committed (the break of line 660 when no pair is found)
Commit ==
    /\ pc = "loop"
    /\ LoopCondition
    /\ selectedGroupId # NULL
    /\ LET selectedGroup == groups[CHOOSE k \in 1..Len(groups) : groups[k].id = selectedGroupId]
           groupState == groupStates[selectedGroupId]
           bestPair == findBestPairForGroup(selectedGroup, groupState, currentTime,
                                            minRestSeconds)
       IN IF bestPair = <<>>
          THEN ReturnFromArea("break")
          ELSE /\ sequenceNumber' = sequenceNumber + 1
               /\ idCount' = idCount + 2
               /\ entries' = Append(entries, makeEntry(area, selectedGroupId, bestPair[1],
                                                       currentTime, sequenceNumber + 1,
                                                       idCount))
               /\ groupStates' = [groupStates EXCEPT ![selectedGroupId] =
                                    commitState(@, bestPair[1], currentTime, minRestSeconds)]
               /\ currentTime' = currentTime + event.fightDuration + event.rotationTime
               /\ iterations' = iterations + 1
               /\ lastStep' = "commit"
               /\ UNCHANGED <<event, pc, areaIdx, groups, allEntries, warnings, schedule,
                              firstRun>>

\* lines 913-995: statistics, rest validation, advisory warnings, the result
TBFinish ==
    /\ pc = "areas"
    /\ areaIdx > Len(event.areas)
    /\ LET timeBoxedStats == computeTimeBoxedStats(allEntries, event)
           restWarnings == validateMinRestBetweenFights(allEntries, allAthletes(event),
                                                        minRestSeconds)
           equity == IF timeBoxedStats.matchCountGap > 2
                     THEN <<[type |-> "INFO", severity |-> "warning",
                             message |-> "Equite non optimale",
                             affectedItems |-> <<event.id>>]>>
                     ELSE <<>>
           completeness ==
                     IF FracLess(timeBoxedStats.overallCompletenessPercentage, Frac(50, 1))
                     THEN <<[type |-> "INFO", severity |-> "warning",
                             message |-> "Completude faible",
                             affectedItems |-> <<event.id>>]>>
                     ELSE <<>>
           ws == warnings \o restWarnings \o equity \o completeness
       IN /\ warnings' = ws
          /\ schedule' = <<[eventId |-> event.id,
                            entries |-> allEntries,
                            stats |-> [totalMatches |-> Len(allEntries),
                                       totalDuration |->
                                           IF Len(allEntries) > 0
                                           THEN allEntries[Len(allEntries)].endTimeSeconds
                                                - allEntries[1].startTimeSeconds
                                           ELSE 0,
                                       areaStats |-> computeAreaStats(allEntries, event),
                                       athleteStats |-> computeAthleteStats(
                                           allEntries, allAthletes(event), minRestSeconds),
                                       timeBoxedStats |-> timeBoxedStats],
                            warnings |-> ws]>>
    /\ pc' = "done"
    /\ UNCHANGED <<event, areaIdx, groups, groupStates, currentTime, sequenceNumber,
                   entries, allEntries, lastStep, iterations, firstRun, idCount>>

LGIdle ==
    /\ groupRounds = <<>>
    /\ roundIdx = 0
    /\ grIdx = 0

ValIdle ==
    /\ valEntries = <<>>
    /\ valMinRest = 0
    /\ valWarnings = <<>>
    /\ valStats = <<>>
    /\ valPc = "idle"

AuxIdle == LGIdle /\ ValIdle

\* The time-boxed scheduler, one call on any event
Init == TBInit /\ RRIdle /\ AuxIdle /\ idCount = 0

Next ==
    \/ TBStart /\ UNCHANGED <<varsRR, varsAux>>
    \/ AreaSkipEmpty /\ UNCHANGED <<varsRR, varsAux>>
    \/ AreaSkipNoValidGroup /\ UNCHANGED <<varsRR, varsAux>>
    \/ AreaBegin /\ UNCHANGED <<varsRR, varsAux>>
    \/ LoopExit /\ UNCHANGED <<varsRR, varsAux>>
    \/ IdleAdvance /\ UNCHANGED <<varsRR, varsAux>>
    \/ IdleBreak /\ UNCHANGED <<varsRR, varsAux>>
    \/ Commit /\ UNCHANGED <<varsRR, varsAux>>
    \/ TBFinish /\ UNCHANGED <<varsRR, varsAux>>

Spec == Init /\ [][Next]_vars

\* The pairing generator, one call on any roster
InitRR == RRInit /\ TBIdle /\ AuxIdle /\ idCount = 0

NextRR ==
    \/ RRSetup /\ UNCHANGED <<varsTB, varsAux>>
    \/ RRRound /\ UNCHANGED <<varsTB, varsAux>>

SpecRR == InitRR /\ [][NextRR]_vars

----------------------------------------------------------------------------
\* Two calls on the same event (POST /api/schedule/generate received twice)

\* the first call has returned; the second starts on the same event, and the id
\* source goes on from where it was
Rerun ==
    /\ pc = "done"
    /\ firstRun = <<>>
    /\ firstRun' = schedule
    /\ pc' = "start"
    /\ areaIdx' = 0
    /\ groups' = <<>>
    /\ groupStates' = EmptyMap
    /\ currentTime' = 0
    /\ sequenceNumber' = 0
    /\ entries' = <<>>
    /\ allEntries' = <<>>
    /\ warnings' = <<>>
    /\ schedule' = <<>>
    /\ lastStep' = "none"
    /\ iterations' = 0
    /\ UNCHANGED <<event, idCount>>

NextDet ==
    \/ TBStart /\ UNCHANGED <<varsRR, varsAux>>
    \/ AreaSkipEmpty /\ UNCHANGED <<varsRR, varsAux>>
    \/ AreaSkipNoValidGroup /\ UNCHANGED <<varsRR, varsAux>>
    \/ AreaBegin /\ UNCHANGED <<varsRR, varsAux>>
    \/ LoopExit /\ UNCHANGED <<varsRR, varsAux>>
    \/ IdleAdvance /\ UNCHANGED <<varsRR, varsAux>>
    \/ IdleBreak /\ UNCHANGED <<varsRR, varsAux>>
    \/ Commit /\ UNCHANGED <<varsRR, varsAux>>
    \/ TBFinish /\ UNCHANGED <<varsRR, varsAux>>
    \/ Rerun /\ UNCHANGED <<varsRR, varsAux>>

SpecDet == Init /\ [][NextDet]_vars

----------------------------------------------------------------------------
\* Properties of the time-boxed scheduler

\* every entry emitted so far by the call, the running area pass included
AllEntries == allEntries \o entries

Involves(e, id) == e.athlete1Id = id \/ e.athlete2Id = id

PairOf(e) == {e.athlete1Id, e.athlete2Id}

InsideWindow(e) ==
    /\ parseTime(event.startTime) <= e.startTimeSeconds
    /\ e.endTimeSeconds <= parseTime(event.endTime)

\* C1: with fightDuration > 0 and rotationTime >= 0, every emitted entry starts at or
\* after the window start and ends at or before the window end, after any number of
\* loop iterations and in the returned schedule
C1_EntriesInsideWindow ==
    (event.fightDuration > 0 /\ event.rotationTime >= 0) =>
        /\ \A k \in 1..Len(AllEntries) : InsideWindow(AllEntries[k])
        /\ \A i \in 1..Len(schedule) :
               \A k \in 1..Len(schedule[i].entries) : InsideWindow(schedule[i].entries[k])

\* a returned schedule of several entries whose last one ends exactly at the window end
C1_Witness ==
    /\ pc = "done"
    /\ Len(schedule[1].entries) >= 2
    /\ schedule[1].entries[Len(schedule[1].entries)].endTimeSeconds
           = parseTime(event.endTime)

\* the rests of athlete `id` between its consecutive entries, ordered by start time
RestsOf(es, id) ==
    LET found == SelectSeq(es, LAMBDA e : Involves(e, id))
        mine == StableSort(found, startTimes(found))
    IN [k \in 1..(Len(mine) - 1) |->
           mine[k + 1].startTimeSeconds - mine[k].endTimeSeconds]

AthleteIds == {a.id : a \in Range(allAthletes(event))}

\* C2: for every athlete, the start of an entry minus the end of the previous entry of
\* that athlete is at least minRestSeconds, and no REST_VIOLATION warning is ever emitted
C2_MinRestRespected ==
    /\ \A id \in AthleteIds :
           LET rests == RestsOf(AllEntries, id)
           IN \A k \in 1..Len(rests) : rests[k] >= minRestSeconds
    /\ \A k \in 1..Len(warnings) : warnings[k].type # "REST_VIOLATION"
    /\ \A i \in 1..Len(schedule) :
           /\ \A k \in 1..Len(schedule[i].warnings) :
                  schedule[i].warnings[k].type # "REST_VIOLATION"
           /\ \A id \in AthleteIds :
                  LET rests == RestsOf(schedule[i].entries, id)
                  IN \A k \in 1..Len(rests) : rests[k] >= minRestSeconds

\* a returned schedule under a minimum rest of 200 s where an athlete fights again
\* exactly 200 s after the end of its previous fight
C2_Witness ==
    /\ pc = "done"
    /\ minRestSeconds = 200
    /\ \E id \in AthleteIds :
           LET rests == RestsOf(schedule[1].entries, id)
           IN \E k \in 1..Len(rests) : rests[k] = 200

\* the pair of entry e was already fought in the entries es
Fought(es, gid, pr) ==
    \E k \in 1..Len(es) : es[k].groupId = gid /\ PairOf(es[k]) = pr

\* the pairs of group gid not fought in es whose two athletes are available at `now`
EligibleNewPairs(es, gid, now) ==
    LET st == groupStates[gid].athleteStates
    IN {pr \in SUBSET (DOMAIN st) :
           /\ Cardinality(pr) = 2
           /\ ~Fought(es, gid, pr)
           /\ \A a \in pr : st[a].availableAt <= now}

\* C3: whenever a step commits an entry for a pair that has already fought in this run,
\* no not-yet-fought pair of the same group had both athletes available at the clock
\* value of that step
C3_RematchOnlyWithoutNewPair ==
    [][ (Len(entries') = Len(entries) + 1) =>
            LET e == entries'[Len(entries')]
            IN Fought(entries, e.groupId, PairOf(e)) =>
                   EligibleNewPairs(entries, e.groupId, currentTime) = {}
      ]_vars

\* a rematch has just been committed while a pair of the same group has never fought
C3_Witness ==
    /\ lastStep = "commit"
    /\ Len(entries) >= 2
    /\ LET e == entries[Len(entries)]
           before == SubSeq(entries, 1, Len(entries) - 1)
       IN /\ Fought(before, e.groupId, PairOf(e))
          /\ \E pr \in SUBSET (DOMAIN groupStates[e.groupId].athleteStates) :
                 Cardinality(pr) = 2 /\ ~Fought(entries, e.groupId, pr)

\* C7: when windowStart + fightDuration > windowEnd the call returns zero entries and
\* exactly one warning, of type TIME_OVERFLOW and severity error, with empty area and
\* athlete statistics, and no area is ever processed; when the window holds one fight
\* no TIME_OVERFLOW warning is emitted
C7_HardInfeasibility ==
    IF parseTime(event.startTime) + event.fightDuration > parseTime(event.endTime)
    THEN /\ pc \in {"start", "done"}
         /\ areaIdx = 0
         /\ AllEntries = <<>>
         /\ lastStep = "none"
         /\ pc = "done" =>
                /\ Len(schedule) = 1
                /\ schedule[1].entries = <<>>
                /\ Len(schedule[1].warnings) = 1
                /\ schedule[1].warnings[1].type = "TIME_OVERFLOW"
                /\ schedule[1].warnings[1].severity = "error"
                /\ schedule[1].stats.areaStats = <<>>
                /\ schedule[1].stats.athleteStats = <<>>
                /\ warnings = schedule[1].warnings
    ELSE /\ \A k \in 1..Len(warnings) : warnings[k].type # "TIME_OVERFLOW"
         /\ \A i \in 1..Len(schedule) :
                \A k \in 1..Len(schedule[i].warnings) :
                    schedule[i].warnings[k].type # "TIME_OVERFLOW"

\* the call has returned on a window of one minute for fights of two minutes, on an
\* event that has a group of at least two athletes
C7_Witness ==
    /\ pc = "done"
    /\ event.fightDuration = 120
    /\ event.endTime = <<9, 1>>
    /\ \E k \in 1..Len(allGroups(event)) : Len(allGroups(event)[k].athletes) >= 2
    /\ Len(schedule[1].warnings) = 1

\* an entry without its opaque identifiers
StripIds(e) ==
    [areaId |-> e.areaId,
     groupId |-> e.groupId,
     athlete1Id |-> e.athlete1Id,
     athlete2Id |-> e.athlete2Id,
     sequenceNumber |-> e.sequenceNumber,
     scheduledTime |-> e.scheduledTime,
     startTimeSeconds |-> e.startTimeSeconds,
     endTimeSeconds |-> e.endTimeSeconds]

StripAll(es) == [k \in 1..Len(es) |-> StripIds(es[k])]

\* C8: a second call on the same event returns the same entries in the same order (area,
\* group, pair, sequence number, start and end time; id and matchId left out), the same
\* statistics and the same warnings as the first call
C8_Determinism ==
    (pc = "done" /\ firstRun # <<>>) =>
        /\ StripAll(schedule[1].entries) = StripAll(firstRun[1].entries)
        /\ schedule[1].stats = firstRun[1].stats
        /\ schedule[1].warnings = firstRun[1].warnings

\* the second call has returned at least three entries, whose identifiers differ from
\* those of the first call
C8_Witness ==
    /\ pc = "done"
    /\ firstRun # <<>>
    /\ Len(schedule[1].entries) >= 3
    /\ schedule[1].entries[1].id # firstRun[1].entries[1].id
    /\ Len(schedule[1].warnings) >= 1

\* max - min of the number of entries per athlete of the event
EntryCountGap(es) ==
    LET counts == {Len(SelectSeq(es, LAMBDA e : Involves(e, id))) : id \in AthleteIds}
    IN (CHOOSE x \in counts : \A y \in counts : x >= y)
       - (CHOOSE x \in counts : \A y \in counts : x <= y)

AllPairs == {pr \in SUBSET AthleteIds : Cardinality(pr) = 2}

\* C10: on fights of 120 s, rotation 30 s, window 09:00-12:00, no minimum rest and one
\* group of four athletes, the first six entries cover the six pairs, and once the loop
\* has ended there are at least six entries and every athlete has the same number
C10_ScenarioB ==
    (event = ScenarioB) =>
        /\ Len(AllEntries) >= 6 =>
               {PairOf(AllEntries[k]) : k \in 1..6} = AllPairs
        /\ areaIdx > 1 =>
               /\ Len(AllEntries) >= 6
               /\ EntryCountGap(AllEntries) = 0
        /\ pc = "done" =>
               /\ Len(schedule[1].entries) >= 6
               /\ {PairOf(schedule[1].entries[k]) : k \in 1..6} = AllPairs
               /\ EntryCountGap(schedule[1].entries) = 0

\* the call on that event has returned, after the window was used up
C10_Witness ==
    /\ event = ScenarioB
    /\ pc = "done"
    /\ lastStep = "exit"
    /\ Len(schedule[1].entries) > 6

----------------------------------------------------------------------------
\* Properties of the pairing generator

\* the matches of all rounds generated so far, in order
RoundMatches == Flatten([k \in 1..Len(rounds) |-> rounds[k].matches])

\* C4: with one cycle and N >= 2 athletes the matches are N*(N-1)/2 in total, every
\* unordered pair of athletes is in exactly one match, and no match involves BYE
C4_EveryPairOnce ==
    (rrPc = "done" /\ cyclesPerGroup = 1 /\ Len(athletes) >= 2) =>
        LET N == Len(athletes)
            ms == RoundMatches
        IN /\ Len(ms) * 2 = N * (N - 1)
           /\ \A a, b \in Range(athletes) :
                  a # b => Cardinality({k \in 1..Len(ms) : PairOf(ms[k]) = {a, b}}) = 1
           /\ \A k \in 1..Len(ms) : BYE \notin PairOf(ms[k])

\* one cycle has been generated for five athletes (a BYE is added)
C4_Witness ==
    /\ rrPc = "done"
    /\ cyclesPerGroup = 1
    /\ Len(athletes) = 5
    /\ Len(RoundMatches) = 10

\* C5: in every round generated, for any roster and any number of cycles, no athlete
\* is in two matches of the round
C5_OneMatchPerRound ==
    \A r \in 1..Len(rounds) :
        LET ms == rounds[r].matches
        IN /\ \A k \in 1..Len(ms) : ms[k].athlete1Id # ms[k].athlete2Id
           /\ \A k, l \in 1..Len(ms) : k # l => PairOf(ms[k]) \cap PairOf(ms[l]) = {}

\* several cycles have been generated, in rounds of three matches
C5_Witness ==
    /\ rrPc = "done"
    /\ cyclesPerGroup >= 2
    /\ \E r \in 1..Len(rounds) : rounds[r].matches # <<>> /\ rounds[r].matches[1].cycle >= 2
    /\ \A r \in 1..Len(rounds) : Len(rounds[r].matches) = 3

\* C6: with one cycle there are N-1 rounds when N is even and N rounds when N is odd,
\* and every round holds N/2 matches (N even) or (N-1)/2 matches (N odd)
C6_RoundCounts ==
    (rrPc = "done" /\ cyclesPerGroup = 1 /\ Len(athletes) >= 2) =>
        LET N == Len(athletes)
        IN /\ Len(rounds) = IF N % 2 = 0 THEN N - 1 ELSE N
           /\ \A r \in 1..Len(rounds) :
                  Len(rounds[r].matches) = IF N % 2 = 0 THEN N \div 2 ELSE (N - 1) \div 2

\* one cycle has been generated for three athletes: three rounds of one match
C6_Witness ==
    /\ rrPc = "done"
    /\ cyclesPerGroup = 1
    /\ Len(athletes) = 3
    /\ Len(rounds) = 3

\* the ordered pairs of the matches of round r
RoundPairs(r) ==
    [k \in 1..Len(rounds[r].matches) |->
        <<rounds[r].matches[k].athlete1Id, rounds[r].matches[k].athlete2Id>>]

\* C9: for the roster [A, B, C, D] and one cycle the rounds are, in order,
\* (A-B),(C-D) then (A-C),(D-B) then (A-D),(B-C)
C9_DocumentedRounds ==
    (rrPc = "done" /\ cyclesPerGroup = 1 /\ athletes = <<"A", "B", "C", "D">>) =>
        /\ Len(rounds) = 3
        /\ RoundPairs(1) = << <<"A", "B">>, <<"C", "D">> >>
        /\ RoundPairs(2) = << <<"A", "C">>, <<"D", "B">> >>
        /\ RoundPairs(3) = << <<"A", "D">>, <<"B", "C">> >>

----------------------------------------------------------------------------
\* validateMinRestBetweenFights, one call on any list of entries

\* longest entry list handed to the validator
MaxValEntries == 3

ValAthletes ==
    <<[id |-> "A", groupId |-> "g1"], [id |-> "B", groupId |-> "g1"],
      [id |-> "C", groupId |-> "g1"]>>

ValPairs == {<<"A", "B">>, <<"A", "C">>, <<"B", "C">>}
ValStarts == {0, 60, 120}
ValDurations == {30}
ValMinRests == {0, 60}

\* the entry lists of length n; the k-th entry has the ids of position k
ValEntryLists(n) ==
    {[k \in 1..n |->
        [id |-> generateId(<<"sch">>, k),
         matchId |-> generateId(<<"match">>, k),
         athlete1Id |-> f[k][1][1],
         athlete2Id |-> f[k][1][2],
         startTimeSeconds |-> f[k][2],
         endTimeSeconds |-> f[k][2] + f[k][3]]] :
     f \in [1..n -> ValPairs \X ValStarts \X ValDurations]}

ValInit ==
    /\ valEntries \in UNION {ValEntryLists(n) : n \in 0..MaxValEntries}
    /\ valMinRest \in ValMinRests
    /\ valWarnings = <<>>
    /\ valStats = <<>>
    /\ valPc = "call"

\* lines 166-205 and 212-265: the validation and the athlete stats of one entry
\* list, as lines 373-391 and 920-953 call them
Validate ==
    /\ valPc = "call"
    /\ valWarnings' = validateMinRestBetweenFights(valEntries, ValAthletes, valMinRest)
    /\ valStats' = computeAthleteStats(valEntries, ValAthletes, valMinRest)
    /\ valPc' = "done"
    /\ UNCHANGED <<valEntries, valMinRest>>

InitVal == ValInit /\ RRIdle /\ TBIdle /\ LGIdle /\ idCount = 0

NextVal ==
    \/ Validate /\ UNCHANGED <<varsRR, varsTB, varsLG, idCount>>

SpecVal == InitVal /\ [][NextVal]_vars

\* entry i comes before entry j in the order by start time (ties keep the list order)
ValBefore(i, j) ==
    \/ valEntries[i].startTimeSeconds < valEntries[j].startTimeSeconds
    \/ (valEntries[i].startTimeSeconds = valEntries[j].startTimeSeconds /\ i < j)

\* entries i and j are consecutive entries of athlete id
ValConsecutive(id, i, j) ==
    /\ Involves(valEntries[i], id)
    /\ Involves(valEntries[j], id)
    /\ ValBefore(i, j)
    /\ ~\E k \in 1..Len(valEntries) :
           Involves(valEntries[k], id) /\ ValBefore(i, k) /\ ValBefore(k, j)

\* athlete, previous entry and next entry of every rest shorter than the minimum,
\* the rest being the start of the next entry minus the end of the previous one
ValShortRests ==
    {<<id, valEntries[i].id, valEntries[j].id>> :
        <<id, i, j>> \in
            {t \in {"A", "B", "C"} \X (1..Len(valEntries)) \X (1..Len(valEntries)) :
                /\ ValConsecutive(t[1], t[2], t[3])
                /\ valEntries[t[3]].startTimeSeconds - valEntries[t[2]].endTimeSeconds
                       < valMinRest}}

\* C11: with minRestSeconds > 0 the validator returns exactly one REST_VIOLATION warning
\* of severity warning for each athlete and each pair of consecutive entries of that
\* athlete whose end-to-start rest is below the minimum, and no other warning
C11_OneWarningPerShortRest ==
    (valPc = "done" /\ valMinRest > 0) =>
        /\ {valWarnings[k].affectedItems : k \in 1..Len(valWarnings)} = ValShortRests
        /\ Len(valWarnings) = Cardinality(ValShortRests)
        /\ \A k \in 1..Len(valWarnings) :
               /\ valWarnings[k].type = "REST_VIOLATION"
               /\ valWarnings[k].severity = "warning"

\* the validator has returned a warning for two entries whose starts are a full minimum
\* rest apart, and no warning for another pair of consecutive entries
C11_Witness ==
    /\ valPc = "done"
    /\ valMinRest = 60
    /\ Len(valEntries) = 3
    /\ Len(valWarnings) >= 1
    /\ \E i, j \in 1..Len(valEntries) :
           /\ <<"A", valEntries[i].id, valEntries[j].id>> \in ValShortRests
           /\ valEntries[j].startTimeSeconds - valEntries[i].startTimeSeconds >= 60
    /\ \E i, j \in 1..Len(valEntries) :
           /\ ValConsecutive("B", i, j)
           /\ <<"B", valEntries[i].id, valEntries[j].id>> \notin ValShortRests

----------------------------------------------------------------------------
\* generateFullSchedule (the Circle Method path kept for compatibility)

\* minRest 300 s, rotation 30 s, fights of 120 s, window 09:00-09:10, one group of 3
ScenarioD == MakeEvent(<< <<3>> >>, 120, 30, <<9, 10>>, <<300>>)

LegacyEvents == SmallEvents \cup {ScenarioD}

\* lines 272-281: returns no warning, whatever the event
validateScheduleFeasibility(ev) == <<>>

\* lines 286-308
calculateMaxCycles(gs, fightDuration, rotationTime, availableTime) ==
    LET matchesPerCycle == SumSeq([k \in 1..Len(gs) |-> combinations(Len(gs[k].athletes))])
        timePerCycle == matchesPerCycle * (fightDuration + rotationTime) - rotationTime
        maxCycles == availableTime \div timePerCycle
    IN IF matchesPerCycle = 0 THEN 1
       ELSE IF maxCycles > 1 THEN maxCycles ELSE 1

\* lines 115-120: the rounds of every group, generated group after group
RECURSIVE makeGroupRounds(_, _, _)
makeGroupRounds(gs, cycles, serial) ==
    IF gs = <<>> THEN <<>>
    ELSE LET rs == generateRoundsForGroup(Head(gs).athletes, Head(gs).id, cycles, serial)
             made == SumSeq([k \in 1..Len(rs) |-> Len(rs[k].matches)])
         IN << [groupId |-> Head(gs).id, athletes |-> Head(gs).athletes, rounds |-> rs] >>
            \o makeGroupRounds(Tail(gs), cycles, serial + made)

\* line 123; Math.max() of no value is -Infinity, and the loop of line 129 does not run
maxRounds ==
    IF groupRounds = <<>> THEN 0
    ELSE SeqMax([k \in 1..Len(groupRounds) |-> Len(groupRounds[k].rounds)])

LGInit ==
    /\ event \in LegacyEvents
    /\ pc = "legacy"
    /\ areaIdx = 0
    /\ groups = <<>>
    /\ groupStates = EmptyMap
    /\ currentTime = 0
    /\ sequenceNumber = 0
    /\ entries = <<>>
    /\ allEntries = <<>>
    /\ warnings = <<>>
    /\ schedule = <<>>
    /\ lastStep = "none"
    /\ iterations = 0
    /\ firstRun = <<>>
    /\ LGIdle

\* lines 317-335: the preliminary validation
LGStart ==
    /\ pc = "legacy"
    /\ LET w == validateScheduleFeasibility(event)
       IN IF \E k \in 1..Len(w) : w[k].severity = "error"
          THEN /\ warnings' = w
               /\ schedule' = <<[eventId |-> event.id,
                                 entries |-> <<>>,
                                 stats |-> [totalMatches |-> 0,
                                            totalDuration |-> 0,
                                            areaStats |-> <<>>,
                                            athleteStats |-> <<>>],
                                 warnings |-> w]>>
               /\ pc' = "legacyDone"
               /\ UNCHANGED areaIdx
          ELSE /\ warnings' = w
               /\ pc' = "legacyAreas"
               /\ areaIdx' = 1
               /\ UNCHANGED schedule
    /\ UNCHANGED <<event, groups, groupStates, currentTime, sequenceNumber, entries,
                   allEntries, lastStep, iterations, firstRun, varsLG, idCount>>

\* lines 342-368 and 112-126: the cycles of the area, the rounds of its groups
LGAreaBegin ==
    /\ pc = "legacyAreas"
    /\ areaIdx <= Len(event.areas)
    /\ LET cycles == calculateMaxCycles(area.groups, event.fightDuration,
                                        event.rotationTime,
                                        endTimeSeconds - startTimeSeconds)
           grs == makeGroupRounds(area.groups, cycles, idCount)
       IN /\ warnings' = IF cycles > 1
                         THEN Append(warnings, [type |-> "INFO",
                                                severity |-> "info",
                                                message |-> "cycles generes",
                                                affectedItems |-> <<area.id>>])
                         ELSE warnings
          /\ groupRounds' = grs
          /\ idCount' = idCount + SumSeq([g \in 1..Len(grs) |->
                            SumSeq([k \in 1..Len(grs[g].rounds) |->
                                       Len(grs[g].rounds[k].matches)])])
    /\ currentTime' = startTimeSeconds
    /\ sequenceNumber' = 1
    /\ roundIdx' = 0
    /\ grIdx' = 1
    /\ entries' = <<>>
    /\ pc' = "legacyRounds"
    /\ UNCHANGED <<event, areaIdx, groups, groupStates, allEntries, schedule, lastStep,
                   iterations, firstRun>>

\* an entry that ends when the rotation after the fight is over
legacyEntryEndAfterRotation(a, gid, match, now, seq, serial, rn) ==
    [id |-> generateId(<<"sch">>, serial + 1),
     areaId |-> a.id,
     groupId |-> gid,
     matchId |-> match.id,
     sequenceNumber |-> seq,
     scheduledTime |-> formatTime(now),
     startTimeSeconds |-> now,
     endTimeSeconds |-> now + event.fightDuration + event.rotationTime,
     athlete1Id |-> match.athlete1Id,
     athlete2Id |-> match.athlete2Id,
     roundNumber |-> rn]

\* an entry numbered with ++sequenceNumber
legacyEntryPreIncrement(a, gid, match, now, seq, serial, rn) ==
    [id |-> generateId(<<"sch">>, serial + 1),
     areaId |-> a.id,
     groupId |-> gid,
     matchId |-> match.id,
     sequenceNumber |-> seq + 1,
     scheduledTime |-> formatTime(now),
     startTimeSeconds |-> now,
     endTimeSeconds |-> now + event.fightDuration,
     athlete1Id |-> match.athlete1Id,
     athlete2Id |-> match.athlete2Id,
     roundNumber |-> rn]

\* lines 139-153: the entry of a match; seq is the value of sequenceNumber++
legacyEntry(a, gid, match, now, seq, serial, rn) ==
    [id |-> generateId(<<"sch">>, serial + 1),
     areaId |-> a.id,
     groupId |-> gid,
     matchId |-> match.id,
     sequenceNumber |-> seq,
     scheduledTime |-> formatTime(now),
     startTimeSeconds |-> now,
     endTimeSeconds |-> now + event.fightDuration,
     athlete1Id |-> match.athlete1Id,
     athlete2Id |-> match.athlete2Id,
     roundNumber |-> rn]

\* the two loops exchanged: all the rounds of a group, then the next group
nextSlotGroupFirst(r, g, n) ==
    IF r + 1 < maxRounds THEN <<r + 1, g>>
    ELSE IF g < n THEN <<0, g + 1>>
    ELSE <<maxRounds, 1>>

\* the loops of lines 129-130 taken group after group inside a round index:
\* <<roundIdx, grIdx>> of the iteration that follows
nextSlot(r, g, n) == IF g < n THEN <<r, g + 1>> ELSE <<r + 1, 1>>

\* lines 130-158: one iteration of `for (const gr of groupRounds)`
LGEmitRound ==
    /\ pc = "legacyRounds"
    /\ roundIdx < maxRounds
    /\ LET gr == groupRounds[grIdx]
           step == event.fightDuration + event.rotationTime
       IN IF roundIdx >= Len(gr.rounds)
          THEN UNCHANGED <<entries, currentTime, sequenceNumber, idCount>>
          ELSE LET rnd == gr.rounds[roundIdx + 1]
                   n == Len(rnd.matches)
               IN /\ entries' = entries \o
                        [k \in 1..n |->
                            legacyEntry(area, gr.groupId, rnd.matches[k],
                                        currentTime + (k - 1) * step,
                                        sequenceNumber + k - 1,
                                        idCount + k - 1,
                                        rnd.roundNumber)]
                  /\ currentTime' = currentTime + n * step
                  /\ sequenceNumber' = sequenceNumber + n
                  /\ idCount' = idCount + n
    /\ roundIdx' = nextSlot(roundIdx, grIdx, Len(groupRounds))[1]
    /\ grIdx' = nextSlot(roundIdx, grIdx, Len(groupRounds))[2]
    /\ UNCHANGED <<event, pc, areaIdx, groups, groupStates, allEntries, warnings,
                   schedule, lastStep, iterations, firstRun, groupRounds>>

\* lines 160 and 372: the area is done, its entries join the others
LGAreaEnd ==
    /\ pc = "legacyRounds"
    /\ ~(roundIdx < maxRounds)
    /\ allEntries' = allEntries \o entries
    /\ entries' = <<>>
    /\ areaIdx' = areaIdx + 1
    /\ pc' = "legacyAreas"
    /\ UNCHANGED <<event, groups, groupStates, currentTime, sequenceNumber, warnings,
                   schedule, lastStep, iterations, firstRun, varsLG, idCount>>

\* lines 373-429: statistics, rest validation, the result
LGFinish ==
    /\ pc = "legacyAreas"
    /\ areaIdx > Len(event.areas)
    /\ LET restWarnings == validateMinRestBetweenFights(allEntries, allAthletes(event),
                                                        minRestSeconds)
           ws == warnings \o restWarnings
       IN /\ warnings' = ws
          /\ schedule' = <<[eventId |-> event.id,
                            entries |-> allEntries,
                            stats |-> [totalMatches |-> Len(allEntries),
                                       totalDuration |->
                                           IF Len(allEntries) > 0
                                           THEN allEntries[Len(allEntries)].endTimeSeconds
                                                - allEntries[1].startTimeSeconds
                                           ELSE 0,
                                       areaStats |-> computeAreaStats(allEntries, event),
                                       athleteStats |-> computeAthleteStats(
                                           allEntries, allAthletes(event), minRestSeconds)],
                            warnings |-> ws]>>
    /\ pc' = "legacyDone"
    /\ UNCHANGED <<event, areaIdx, groups, groupStates, currentTime, sequenceNumber,
                   entries, allEntries, lastStep, iterations, firstRun, varsLG, idCount>>

InitLegacy == LGInit /\ RRIdle /\ ValIdle /\ idCount = 0

NextLegacy ==
    \/ LGStart /\ UNCHANGED <<varsRR, varsVal>>
    \/ LGAreaBegin /\ UNCHANGED <<varsRR, varsVal>>
    \/ LGEmitRound /\ UNCHANGED <<varsRR, varsVal>>
    \/ LGAreaEnd /\ UNCHANGED <<varsRR, varsVal>>
    \/ LGFinish /\ UNCHANGED <<varsRR, varsVal>>

SpecLegacy == InitLegacy /\ [][NextLegacy]_vars

\* Both paths: one call of generateTimeBoxedSchedule or of generateFullSchedule
InitPaths == ((TBInit /\ LGIdle) \/ LGInit) /\ RRIdle /\ ValIdle /\ idCount = 0

NextPaths ==
    \/ TBStart /\ UNCHANGED <<varsRR, varsAux>>
    \/ AreaSkipEmpty /\ UNCHANGED <<varsRR, varsAux>>
    \/ AreaSkipNoValidGroup /\ UNCHANGED <<varsRR, varsAux>>
    \/ AreaBegin /\ UNCHANGED <<varsRR, varsAux>>
    \/ LoopExit /\ UNCHANGED <<varsRR, varsAux>>
    \/ IdleAdvance /\ UNCHANGED <<varsRR, varsAux>>
    \/ IdleBreak /\ UNCHANGED <<varsRR, varsAux>>
    \/ Commit /\ UNCHANGED <<varsRR, varsAux>>
    \/ TBFinish /\ UNCHANGED <<varsRR, varsAux>>
    \/ LGStart /\ UNCHANGED <<varsRR, varsVal>>
    \/ LGAreaBegin /\ UNCHANGED <<varsRR, varsVal>>
    \/ LGEmitRound /\ UNCHANGED <<varsRR, varsVal>>
    \/ LGAreaEnd /\ UNCHANGED <<varsRR, varsVal>>
    \/ LGFinish /\ UNCHANGED <<varsRR, varsVal>>

SpecPaths == InitPaths /\ [][NextPaths]_vars

----------------------------------------------------------------------------
\* Properties of the Circle Method path and of the entries of both paths

\* the entries of es that belong to area aid, in emission order
EntriesOfArea(es, aid) == SelectSeq(es, LAMBDA e : e.areaId = aid)

AreaIds == {event.areas[i].id : i \in 1..Len(event.areas)}

\* C12: in a Circle Method run with minRestSeconds = 300 and rotationTime = 30, two
\* back-to-back matches of an athlete (the second starts a rotation after the first
\* ends) give one REST_VIOLATION warning whose affected items are the id of the athlete
\* and the matchId of the two entries
C12_WarningCitesMatchIds ==
    (pc = "legacyDone" /\ minRestSeconds = 300 /\ event.rotationTime = 30) =>
        \A id \in AthleteIds :
            LET mine == SelectSeq(schedule[1].entries, LAMBDA e : Involves(e, id))
            IN \A k \in 1..(Len(mine) - 1) :
                   (mine[k + 1].startTimeSeconds - mine[k].endTimeSeconds = 30) =>
                       Cardinality({w \in 1..Len(warnings) :
                           /\ warnings[w].type = "REST_VIOLATION"
                           /\ warnings[w].affectedItems =
                                  <<id, mine[k].matchId, mine[k + 1].matchId>>}) = 1

OrderedEntries(es) ==
    /\ \A k \in 1..Len(es) :
           es[k].endTimeSeconds = es[k].startTimeSeconds + event.fightDuration
    /\ \A k \in 1..(Len(es) - 1) :
           /\ es[k].sequenceNumber < es[k + 1].sequenceNumber
           /\ es[k].startTimeSeconds <= es[k + 1].startTimeSeconds

\* C13: on both paths the entries of one area, in emission order, have strictly
\* increasing sequence numbers and non-decreasing start times, and every entry ends
\* exactly fightDuration after it starts
C13_EntriesOrdered ==
    \A aid \in AreaIds :
        /\ OrderedEntries(EntriesOfArea(AllEntries, aid))
        /\ \A i \in 1..Len(schedule) :
               OrderedEntries(EntriesOfArea(schedule[i].entries, aid))

\* a Circle Method run has returned the entries of two groups, six or more in all,
\* with a rotation time between the fights
C13_Witness ==
    /\ pc = "legacyDone"
    /\ event.rotationTime = 30
    /\ Len(schedule[1].entries) >= 6
    /\ \E k \in 1..Len(schedule[1].entries) :
           schedule[1].entries[k].groupId # schedule[1].entries[1].groupId

\* C17: in a Circle Method run, when the time the matches of an area need,
\* nbMatches * (fightDuration + rotationTime) - rotationTime, is longer than the
\* window, a TIME_OVERFLOW warning of severity error is emitted
C17_OverflowWarned ==
    (pc = "legacyDone") =>
        \A aid \in AreaIds :
            LET nb == Len(EntriesOfArea(schedule[1].entries, aid))
                needed == nb * (event.fightDuration + event.rotationTime)
                          - event.rotationTime
            IN (nb > 0 /\ needed > parseTime(event.endTime) - parseTime(event.startTime)) =>
                   \E w \in 1..Len(warnings) :
                       /\ warnings[w].type = "TIME_OVERFLOW"
                       /\ warnings[w].severity = "error"

\* what an entry shows of its match: group, pair and round number
Shown(e) == <<e.groupId, e.athlete1Id, e.athlete2Id, e.roundNumber>>

\* the matches of round index k (0-based) of the groups gs, group after group
RECURSIVE LockStepRound(_, _, _)
LockStepRound(gs, cycles, k) ==
    IF gs = <<>> THEN <<>>
    ELSE LET rs == generateRoundsForGroup(Head(gs).athletes, Head(gs).id, cycles, 0)
             ms == IF k < Len(rs) THEN rs[k + 1].matches ELSE <<>>
         IN [m \in 1..Len(ms) |->
                <<Head(gs).id, ms[m].athlete1Id, ms[m].athlete2Id, rs[k + 1].roundNumber>>]
            \o LockStepRound(Tail(gs), cycles, k)

\* the rounds k, k+1, ... of the area, as long as a group has such a round
RECURSIVE LockStep(_, _, _, _)
LockStep(gs, cycles, k, most) ==
    IF k >= most THEN <<>>
    ELSE LockStepRound(gs, cycles, k) \o LockStep(gs, cycles, k + 1, most)

LockStepOfArea(a) ==
    LET cycles == calculateMaxCycles(a.groups, event.fightDuration, event.rotationTime,
                                     parseTime(event.endTime) - parseTime(event.startTime))
        lens == {Len(generateRoundsForGroup(a.groups[g].athletes, a.groups[g].id, cycles, 0)) :
                    g \in 1..Len(a.groups)}
        most == IF lens = {} THEN 0 ELSE CHOOSE x \in lens : \A y \in lens : x >= y
    IN LockStep(a.groups, cycles, 0, most)

IsPrefix(s, t) == Len(s) <= Len(t) /\ s = SubSeq(t, 1, Len(s))

\* C18: the interleaver emits, for round index 0, 1, ... and for each group in input
\* order that has such a round, all the matches of that round of the group, in the
\* order of the round; a group that has no such round is passed over, and the round
\* numbers of the entries of an area never decrease
C18_LockStepByRound ==
    (pc \in {"legacyAreas", "legacyRounds", "legacyDone"}) =>
        \A i \in 1..Len(event.areas) :
            LET es == EntriesOfArea(AllEntries, event.areas[i].id)
                shown == [k \in 1..Len(es) |-> Shown(es[k])]
            IN /\ IsPrefix(shown, LockStepOfArea(event.areas[i]))
               /\ (pc = "legacyDone" \/ areaIdx > i) =>
                      shown = LockStepOfArea(event.areas[i])
               /\ \A k \in 1..(Len(es) - 1) : es[k].roundNumber <= es[k + 1].roundNumber

\* the run has returned the entries of a group of two athletes and of a group of four:
\* the first group has fewer rounds in a cycle, and is passed over for the later indices
C18_Witness ==
    /\ pc = "legacyDone"
    /\ Len(event.areas[1].groups) = 2
    /\ Len(event.areas[1].groups[1].athletes) = 2
    /\ Len(event.areas[1].groups[2].athletes) = 4
    /\ Len(schedule[1].entries) = 7

\* C16: with C cycles the rounds are numbered 1..C*(N'-1) in emission order, N' being the
\* roster size after BYE padding; round k of cycle c holds the pairs of round k of
\* cycle 1 and its matches are tagged with cycle c; every unordered pair of athletes is
\* in exactly C matches, one per cycle
C16_CyclesRepeatRounds ==
    (rrPc = "done" /\ Len(athletes) >= 2) =>
        LET N == Len(athletes)
            padded == IF N % 2 = 1 THEN N + 1 ELSE N
            perCycle == padded - 1
            ms == RoundMatches
        IN /\ Len(rounds) = cyclesPerGroup * perCycle
           /\ \A r \in 1..Len(rounds) : rounds[r].roundNumber = r
           /\ \A c \in 1..cyclesPerGroup : \A k \in 1..perCycle :
                  LET r == (c - 1) * perCycle + k
                  IN /\ RoundPairs(r) = RoundPairs(k)
                     /\ \A m \in 1..Len(rounds[r].matches) : rounds[r].matches[m].cycle = c
           /\ \A a, b \in Range(athletes) :
                  a # b =>
                      /\ Cardinality({m \in 1..Len(ms) : PairOf(ms[m]) = {a, b}})
                             = cyclesPerGroup
                      /\ \A c \in 1..cyclesPerGroup :
                             Cardinality({m \in 1..Len(ms) :
                                 PairOf(ms[m]) = {a, b} /\ ms[m].cycle = c}) = 1

\* three cycles have been generated for five athletes (a BYE is added): 15 rounds
C16_Witness ==
    /\ rrPc = "done"
    /\ cyclesPerGroup = 3
    /\ Len(athletes) = 5
    /\ Len(rounds) = 15
    /\ rounds[15].roundNumber = 15

----------------------------------------------------------------------------
\* The time-boxed scheduler on events of several areas

\* most areas of an event
MaxAreas == 2
\* largest window of these events, in minutes after the 09:00 start
MaxAreaWindowMinutes == 2

\* the areas of these events: no group, one athlete alone, a group of two, a group of
\* one beside a group of three, two groups of two
AreaPalette == {<<>>, <<1>>, <<2>>, <<1, 3>>, <<2, 2>>}

AreaLayouts == UNION {[1..n -> AreaPalette] : n \in 1..MaxAreas}

AreaEvents ==
    {MakeEvent(l, fd, rot, <<9, k>>, mr) :
        l \in AreaLayouts, fd \in FightDurations, rot \in RotationTimes,
        k \in 0..MaxAreaWindowMinutes, mr \in MinRestOptions}

TBInitAreas ==
    /\ event \in AreaEvents
    /\ pc = "start"
    /\ areaIdx = 0
    /\ groups = <<>>
    /\ groupStates = EmptyMap
    /\ currentTime = 0
    /\ sequenceNumber = 0
    /\ entries = <<>>
    /\ allEntries = <<>>
    /\ warnings = <<>>
    /\ schedule = <<>>
    /\ lastStep = "none"
    /\ iterations = 0
    /\ firstRun = <<>>

InitAreas == TBInitAreas /\ RRIdle /\ AuxIdle /\ idCount = 0

NextAreas ==
    \/ TBStart /\ UNCHANGED <<varsRR, varsAux>>
    \/ AreaSkipEmpty /\ UNCHANGED <<varsRR, varsAux>>
    \/ AreaSkipNoValidGroup /\ UNCHANGED <<varsRR, varsAux>>
    \/ AreaBegin /\ UNCHANGED <<varsRR, varsAux>>
    \/ LoopExit /\ UNCHANGED <<varsRR, varsAux>>
    \/ IdleAdvance /\ UNCHANGED <<varsRR, varsAux>>
    \/ IdleBreak /\ UNCHANGED <<varsRR, varsAux>>
    \/ Commit /\ UNCHANGED <<varsRR, varsAux>>
    \/ TBFinish /\ UNCHANGED <<varsRR, varsAux>>

SpecAreas == InitAreas /\ [][NextAreas]_vars

\* the first call has returned; a second call is made on the same event reduced to one
\* of its areas
RerunAlone ==
    /\ pc = "done"
    /\ firstRun = <<>>
    /\ \E k \in 1..Len(event.areas) :
           event' = [event EXCEPT !.areas = <<event.areas[k]>>]
    /\ firstRun' = schedule
    /\ pc' = "start"
    /\ areaIdx' = 0
    /\ groups' = <<>>
    /\ groupStates' = EmptyMap
    /\ currentTime' = 0
    /\ sequenceNumber' = 0
    /\ entries' = <<>>
    /\ allEntries' = <<>>
    /\ warnings' = <<>>
    /\ schedule' = <<>>
    /\ lastStep' = "none"
    /\ iterations' = 0
    /\ UNCHANGED idCount

NextIndep ==
    \/ TBStart /\ UNCHANGED <<varsRR, varsAux>>
    \/ AreaSkipEmpty /\ UNCHANGED <<varsRR, varsAux>>
    \/ AreaSkipNoValidGroup /\ UNCHANGED <<varsRR, varsAux>>
    \/ AreaBegin /\ UNCHANGED <<varsRR, varsAux>>
    \/ LoopExit /\ UNCHANGED <<varsRR, varsAux>>
    \/ IdleAdvance /\ UNCHANGED <<varsRR, varsAux>>
    \/ IdleBreak /\ UNCHANGED <<varsRR, varsAux>>
    \/ Commit /\ UNCHANGED <<varsRR, varsAux>>
    \/ TBFinish /\ UNCHANGED <<varsRR, varsAux>>
    \/ RerunAlone /\ UNCHANGED <<varsRR, varsAux>>

SpecIndep == InitAreas /\ [][NextIndep]_vars

----------------------------------------------------------------------------
\* Properties of the time-boxed scheduler on several areas

\* the warnings of the returned schedule that cite item x
WarningsCiting(x) ==
    {w \in 1..Len(schedule[1].warnings) :
        \E k \in 1..Len(schedule[1].warnings[w].affectedItems) :
            schedule[1].warnings[w].affectedItems[k] = x}

HasValidGroup(a) == \E g \in 1..Len(a.groups) : Len(a.groups[g].athletes) >= 2

Feasible == parseTime(event.startTime) + event.fightDuration <= parseTime(event.endTime)

OtherAreasScheduled ==
    \A j \in 1..Len(event.areas) :
        HasValidGroup(event.areas[j]) =>
            EntriesOfArea(schedule[1].entries, event.areas[j].id) # <<>>

C19_NoOverflowInStats ==
    (pc = "done" /\ Feasible) =>
        LET available == parseTime(event.endTime) - parseTime(event.startTime)
            stats == schedule[1].stats
        IN /\ Len(stats.areaStats) = Len(event.areas)
           /\ \A i \in 1..Len(event.areas) :
                  LET es == EntriesOfArea(schedule[1].entries, event.areas[i].id)
                      realized == IF es = <<>> THEN 0
                                  ELSE es[Len(es)].endTimeSeconds - es[1].startTimeSeconds
                  IN /\ stats.areaStats[i].areaId = event.areas[i].id
                     /\ stats.areaStats[i].duration = realized
                     /\ 0 <= realized /\ realized <= available
                     /\ stats.areaStats[i].marginOrOverflow = available - realized
                     /\ stats.areaStats[i].marginOrOverflow >= 0
           /\ LET u == stats.timeBoxedStats.timeUtilizationPercentage
              IN /\ u.den > 0
                 /\ 0 <= u.num
                 /\ u.num <= 100 * u.den

\* a run on two areas has returned; the fights of 120 s of one area fill the window of two
\* minutes, the other area has no entry
C19_Witness ==
    /\ pc = "done"
    /\ Feasible
    /\ Len(event.areas) = 2
    /\ event.fightDuration = 120
    /\ \E i \in 1..2 : schedule[1].stats.areaStats[i].marginOrOverflow = 0
    /\ \E i \in 1..2 : schedule[1].stats.areaStats[i].matchCount = 0
    /\ schedule[1].stats.timeBoxedStats.timeUtilizationPercentage = Frac(12000, 120)

\* C20: the entries of an area (groups, pairs, sequence numbers, times) are those of a
\* run on the event reduced to that area: they do not depend on the other areas
C20_AreaIndependence ==
    (pc = "done" /\ firstRun # <<>>) =>
        /\ Len(event.areas) = 1
        /\ StripAll(schedule[1].entries)
               = StripAll(EntriesOfArea(firstRun[1].entries, event.areas[1].id))

\* the second area of an event has been scheduled alone, after a first run where the
\* first area had entries too
C20_Witness ==
    /\ pc = "done"
    /\ firstRun # <<>>
    /\ Len(schedule[1].entries) >= 3
    /\ Len(firstRun[1].entries) > Len(schedule[1].entries)
    /\ firstRun[1].entries[1].areaId # event.areas[1].id

----------------------------------------------------------------------------
\* The main loop of scheduleTimeBoxedMatchesForArea

\* The call runs to its end without being suspended: weak fairness of each of its
\* steps.  For a pass of the loop body and for the final statistics the condition
\* WF_vars(A) is written out as []<>~ENABLED <<A>>_vars \/ []<><<A>>_vars, with ENABLED
\* replaced by the guard it is equal to: the body is entered exactly when the loop
\* condition of line 614 holds (one of its three branches is then taken), the
\* statistics are computed exactly when the area loop is over.
LoopBody == IdleAdvance \/ IdleBreak \/ Commit

FairAreas ==
    /\ WF_vars(TBStart /\ UNCHANGED <<varsRR, varsAux>>)
    /\ WF_vars(AreaSkipEmpty /\ UNCHANGED <<varsRR, varsAux>>)
    /\ WF_vars(AreaSkipNoValidGroup /\ UNCHANGED <<varsRR, varsAux>>)
    /\ WF_vars(AreaBegin /\ UNCHANGED <<varsRR, varsAux>>)
    /\ WF_vars(LoopExit /\ UNCHANGED <<varsRR, varsAux>>)
    /\ []<>(~(pc = "loop" /\ LoopCondition)) \/ []<><<LoopBody>>_vars
    /\ []<>(~(pc = "areas" /\ areaIdx > Len(event.areas))) \/ []<><<TBFinish>>_vars

SpecAreasLive == SpecAreas /\ FairAreas

\* the athlete states of the area pass, all groups together
AthleteStatesOf(g) == groupStates[g].athleteStates

\* group g has two athletes that are both available at the clock
HasEligiblePair(g) ==
    \E a, b \in DOMAIN AthleteStatesOf(g) :
        /\ a # b
        /\ AthleteStatesOf(g)[a].availableAt <= currentTime
        /\ AthleteStatesOf(g)[b].availableAt <= currentTime

NoEligiblePair == \A g \in DOMAIN groupStates : ~HasEligiblePair(g)

\* the availableAt values strictly between the clock and the end of the window
FutureAvailabilities ==
    UNION {{AthleteStatesOf(g)[a].availableAt : a \in DOMAIN AthleteStatesOf(g)} :
              g \in DOMAIN groupStates}
    \cap {t \in 0..parseTime(event.endTime) :
             t > currentTime /\ t < parseTime(event.endTime)}

\* C21: every pass of the loop commits one entry, or strictly advances the clock, or
\* ends the loop; the loop ends only when clock + fightDuration > windowEnd, or when no
\* group has an eligible pair and no availableAt lies strictly between the clock and
\* windowEnd; and the loop always ends
C21_LoopTerminates ==
    /\ [][ pc = "loop" =>
             \/ /\ pc' = "loop"
                /\ Len(entries') = Len(entries) + 1
                /\ currentTime' > currentTime
             \/ /\ pc' = "loop"
                /\ entries' = entries
                /\ currentTime' > currentTime
             \/ /\ pc' = "areas"
                /\ \/ currentTime + event.fightDuration > parseTime(event.endTime)
                   \/ NoEligiblePair /\ FutureAvailabilities = {}
         ]_vars
    /\ (pc = "loop") ~> (pc = "areas")
    /\ <>(pc = "done")

\* the loop of an area has ended on the break of the idle branch, after a clock jump
C21_Witness ==
    /\ pc = "areas"
    /\ lastStep = "break"
    /\ areaIdx = 2
    /\ iterations > Len(allEntries)
    /\ Len(allEntries) >= 2

\* C22 as stated: the passes of the loop of an area are at most as many as the entries
\* of that area (only the passes that go round again are counted)
C22_IterationsAtMostMatches ==
    pc = "loop" => iterations <= Len(entries)

\* C22, amended: the passes of the loop that go round again are the commits and the idle
\* clock jumps; there is at most one idle jump per commit, so the passes are at least
\* the entries and at most twice the entries, and they are exactly the entries when
\* minRestSeconds <= rotationTime
C22_IterationsAtMostTwiceMatches ==
    pc = "loop" =>
        /\ Len(entries) <= iterations
        /\ iterations <= 2 * Len(entries)
        /\ lastStep = "idle" => iterations > Len(entries)
        /\ minRestSeconds <= event.rotationTime => iterations = Len(entries)

\* the loop has made as many idle jumps as commits, twice at least
C22_Witness ==
    /\ pc = "loop"
    /\ Len(entries) >= 2
    /\ iterations = 2 * Len(entries)
    /\ minRestSeconds > event.rotationTime

----------------------------------------------------------------------------
\* Selection of the group and of the pair at a commit

\* a step of the loop that commits an entry
CommitStep == pc = "loop" /\ Len(entries') = Len(entries) + 1

\* the position of group g among the groups of the area pass
GroupPosition(g) == CHOOSE k \in 1..Len(groups) : groups[k].id = g

\* totalMatches / athleteCount of group g is smaller than that of group h
LowerAverage(g, h) ==
    groupStates[g].totalMatches * Cardinality(DOMAIN AthleteStatesOf(h))
        < groupStates[h].totalMatches * Cardinality(DOMAIN AthleteStatesOf(g))

\* C23: at every commit the chosen group has an eligible pair at the clock, no group
\* with an eligible pair has a lower totalMatches / athleteCount, and every group with
\* an eligible pair that comes earlier in the group order has a higher one
C23_GroupSelection ==
    [][ CommitStep =>
            LET chosen == entries'[Len(entries')].groupId
            IN /\ chosen \in DOMAIN groupStates
               /\ HasEligiblePair(chosen)
               /\ \A g \in DOMAIN groupStates :
                      HasEligiblePair(g) =>
                          /\ ~LowerAverage(g, chosen)
                          /\ GroupPosition(g) < GroupPosition(chosen) =>
                                 LowerAverage(chosen, g)
      ]_vars

\* the second group of an area, larger than the first, has just been given two entries
\* in a row while the first group had an eligible pair too
C23_Witness ==
    /\ pc = "loop"
    /\ lastStep = "commit"
    /\ Len(groups) = 2
    /\ Len(groups[1].athletes) < Len(groups[2].athletes)
    /\ Len(entries) >= 3
    /\ entries[Len(entries)].groupId = groups[2].id
    /\ entries[Len(entries) - 1].groupId = groups[2].id
    /\ minRestSeconds <= event.rotationTime

\* the position of athlete a in the athlete list of group g
AthletePosition(g, a) ==
    LET list == groups[GroupPosition(g)].athletes
    IN CHOOSE k \in 1..Len(list) : list[k] = a

\* the pairs <<a, b>> of group g, a before b in the athlete list, both available at the
\* clock
AvailablePairs(g) ==
    {p \in (DOMAIN AthleteStatesOf(g)) \X (DOMAIN AthleteStatesOf(g)) :
        /\ AthletePosition(g, p[1]) < AthletePosition(g, p[2])
        /\ AthleteStatesOf(g)[p[1]].availableAt <= currentTime
        /\ AthleteStatesOf(g)[p[2]].availableAt <= currentTime}

\* the candidate set: the available pairs that have not fought yet if there is one,
\* all available pairs (rematches) otherwise
CandidateSet(g) ==
    LET new == {p \in AvailablePairs(g) : ~Fought(entries, g, {p[1], p[2]})}
    IN IF new # {} THEN new ELSE AvailablePairs(g)

\* 10 * (countA + countB) + |countA - avg| + |countB - avg| with avg = T / n, times n
ScoreTimesCount(g, p) ==
    LET n == Cardinality(DOMAIN AthleteStatesOf(g))
        T == groupStates[g].totalMatches
        countA == AthleteStatesOf(g)[p[1]].matchCount
        countB == AthleteStatesOf(g)[p[2]].matchCount
    IN 10 * (countA + countB) * n + Abs(countA * n - T) + Abs(countB * n - T)

\* p comes before q in the order of the double loop (i ascending, then j ascending)
EnumeratedBefore(g, p, q) ==
    \/ AthletePosition(g, p[1]) < AthletePosition(g, q[1])
    \/ /\ p[1] = q[1]
       /\ AthletePosition(g, p[2]) < AthletePosition(g, q[2])

\* C24: the pair of every commit is in the candidate set of its group (both athletes
\* available at the clock; new opponents if a new pair is available, a rematch
\* otherwise), has the minimum fairnessScore of that set, and is the first pair of the
\* enumeration order among those of minimum score
C24_PairSelection ==
    [][ CommitStep =>
            LET e == entries'[Len(entries')]
                g == e.groupId
                best == <<e.athlete1Id, e.athlete2Id>>
            IN /\ best \in CandidateSet(g)
               /\ \A q \in CandidateSet(g) :
                      /\ ScoreTimesCount(g, best) <= ScoreTimesCount(g, q)
                      /\ (ScoreTimesCount(g, q) = ScoreTimesCount(g, best) /\ q # best) =>
                             EnumeratedBefore(g, best, q)
      ]_vars

\* in a group of four athletes who never rest, the pair just committed is a rematch
\* that does not start with the first athlete of the list
C24_Witness ==
    /\ pc = "loop"
    /\ lastStep = "commit"
    /\ minRestSeconds <= event.rotationTime
    /\ Len(groups) = 1
    /\ Len(groups[1].athletes) = 4
    /\ Len(entries) >= 7
    /\ entries[Len(entries)].athlete1Id # groups[1].athletes[1]
    /\ Fought(SubSeq(entries, 1, Len(entries) - 1), groups[1].id,
              PairOf(entries[Len(entries)]))

----------------------------------------------------------------------------
\* The scheduling state of an area pass

\* the entries of group g that involve athlete a, in emission order
EntriesOfAthlete(g, a) ==
    SelectSeq(entries, LAMBDA e : e.groupId = g /\ Involves(e, a))

EntriesOfGroup(g) == SelectSeq(entries, LAMBDA e : e.groupId = g)

\* C25: while the loop of an area runs, each athlete's matchCount is the number of
\* entries that contain the athlete, each group's totalMatches is the number of its
\* entries and half the sum of its athletes' matchCounts, opponents is symmetric and
\* holds exactly the opponents of the entries, and availableAt is the end of the
\* athlete's latest entry plus minRestSeconds (the start of the window before the
\* first fight)
C25_StateConsistency ==
    pc = "loop" =>
        \A g \in DOMAIN groupStates :
            LET st == AthleteStatesOf(g)
            IN /\ groupStates[g].totalMatches = Len(EntriesOfGroup(g))
               /\ SumSet({<<a, st[a].matchCount>> : a \in DOMAIN st})
                      = 2 * groupStates[g].totalMatches
               /\ \A a \in DOMAIN st :
                      LET mine == EntriesOfAthlete(g, a)
                      IN /\ st[a].matchCount = Len(mine)
                         /\ st[a].opponents =
                                {b \in DOMAIN st : b # a /\ Fought(entries, g, {a, b})}
                         /\ \A b \in st[a].opponents : a \in st[b].opponents
                         /\ st[a].availableAt =
                                IF mine = <<>>
                                THEN parseTime(event.startTime)
                                ELSE mine[Len(mine)].endTimeSeconds + minRestSeconds
                         /\ st[a].lastMatchEndTime =
                                IF mine = <<>>
                                THEN parseTime(event.startTime)
                                ELSE mine[Len(mine)].endTimeSeconds

\* two groups have entries; an athlete has fought the same opponent twice, another has
\* not fought yet, and the rest is not zero
C25_Witness ==
    /\ pc = "loop"
    /\ lastStep = "commit"
    /\ minRestSeconds > 0
    /\ \A g \in DOMAIN groupStates : groupStates[g].totalMatches >= 1
    /\ Cardinality(DOMAIN groupStates) = 2
    /\ \E g \in DOMAIN groupStates : \E a \in DOMAIN AthleteStatesOf(g) :
           /\ AthleteStatesOf(g)[a].matchCount >= 2
           /\ Cardinality(AthleteStatesOf(g)[a].opponents) = 1
    /\ \E g \in DOMAIN groupStates : \E a \in DOMAIN AthleteStatesOf(g) :
           AthleteStatesOf(g)[a].matchCount = 0

\* the state of every athlete but the two of `pair`, and of every group but g
OthersUnchanged(g, pair) ==
    /\ DOMAIN groupStates' = DOMAIN groupStates
    /\ \A h \in DOMAIN groupStates : h # g => groupStates'[h] = groupStates[h]
    /\ DOMAIN groupStates'[g].athleteStates = DOMAIN groupStates[g].athleteStates
    /\ \A a \in DOMAIN groupStates[g].athleteStates :
           a \notin pair => groupStates'[g].athleteStates[a] = groupStates[g].athleteStates[a]

\* C26: a commit changes the state of the two athletes of the new entry and the
\* totalMatches of their group (by one) and nothing else of the athlete and group
\* states; an idle clock jump changes no athlete or group state and emits no entry
C26_CommitFrame ==
    [][ /\ CommitStep =>
            LET e == entries'[Len(entries')]
            IN /\ OthersUnchanged(e.groupId, PairOf(e))
               /\ groupStates'[e.groupId].totalMatches
                      = groupStates[e.groupId].totalMatches + 1
               /\ groups' = groups
               /\ allEntries' = allEntries
               /\ SubSeq(entries', 1, Len(entries)) = entries
        /\ (pc = "loop" /\ pc' = "loop" /\ ~CommitStep) =>
               /\ groupStates' = groupStates
               /\ entries' = entries
               /\ allEntries' = allEntries
               /\ sequenceNumber' = sequenceNumber
               /\ currentTime' # currentTime
      ]_vars

\* a commit has just been made in the second group of an area whose first group has
\* fought, in a group where an athlete who was resting stays out of the entry
C26_Witness ==
    /\ pc = "loop"
    /\ lastStep = "commit"
    /\ Len(groups) = 2
    /\ minRestSeconds > event.rotationTime
    /\ entries[Len(entries)].groupId = groups[2].id
    /\ groupStates[groups[1].id].totalMatches >= 1
    /\ \E a \in DOMAIN AthleteStatesOf(groups[2].id) :
           /\ ~Involves(entries[Len(entries)], a)
           /\ AthleteStatesOf(groups[2].id)[a].availableAt > entries[Len(entries)].startTimeSeconds

----------------------------------------------------------------------------
\* The idle branch of the loop

\* the body of the loop is entered: a fight still fits at the clock
FightFits == currentTime + event.fightDuration <= parseTime(event.endTime)

\* C27: in a pass of the loop where no group has an eligible pair, the clock becomes the
\* smallest availableAt of the area that is strictly after the clock and strictly
\* before windowEnd, and no entry is emitted; without such a value the pass stops the
\* loop; a pass where some group has an eligible pair commits an entry; the clock never
\* moves backwards
C27_IdleStep ==
    [][ (pc = "loop" /\ FightFits) =>
            /\ (NoEligiblePair /\ FutureAvailabilities # {}) =>
                   /\ pc' = "loop"
                   /\ entries' = entries
                   /\ currentTime' \in FutureAvailabilities
                   /\ \A t \in FutureAvailabilities : currentTime' <= t
            /\ (NoEligiblePair /\ FutureAvailabilities = {}) =>
                   /\ pc' = "areas"
                   /\ allEntries' = allEntries \o entries
            /\ ~NoEligiblePair =>
                   /\ CommitStep
                   /\ pc' = "loop"
                   /\ entries'[Len(entries')].startTimeSeconds = currentTime
            /\ pc' = "loop" => currentTime' >= currentTime
      ]_vars

\* the clock has just jumped to the nearest availability while athletes of the other
\* group become available later, still inside the window
C27_Witness ==
    /\ pc = "loop"
    /\ lastStep = "idle"
    /\ Len(entries) >= 2
    /\ \E g \in DOMAIN groupStates : \E a \in DOMAIN AthleteStatesOf(g) :
           AthleteStatesOf(g)[a].availableAt = currentTime
    /\ FutureAvailabilities # {}

----------------------------------------------------------------------------
\* The clock and the cycles of the Circle Method path

\* the k-th entry of es has sequence number k and starts (k-1) slots after the start of
\* the window, a slot being fightDuration + rotationTime
OnLegacyClock(es) ==
    \A k \in 1..Len(es) :
        /\ es[k].sequenceNumber = k
        /\ es[k].startTimeSeconds = parseTime(event.startTime)
               + (k - 1) * (event.fightDuration + event.rotationTime)
        /\ es[k].endTimeSeconds = es[k].startTimeSeconds + event.fightDuration

\* C28: in a Circle Method run the k-th entry emitted for an area has sequenceNumber k
\* and starts at startTime + (k-1) * (fightDuration + rotationTime); the realized
\* duration of an area with M >= 1 matches is M * (fightDuration + rotationTime)
\* - rotationTime
C28_LegacyClock ==
    pc \in {"legacyRounds", "legacyAreas", "legacyDone"} =>
        \A i \in 1..Len(event.areas) :
            /\ OnLegacyClock(EntriesOfArea(AllEntries, event.areas[i].id))
            /\ pc = "legacyRounds" =>
                   /\ sequenceNumber = Len(entries) + 1
                   /\ currentTime = parseTime(event.startTime)
                          + Len(entries) * (event.fightDuration + event.rotationTime)
            /\ pc = "legacyDone" =>
                   LET M == Len(EntriesOfArea(schedule[1].entries, event.areas[i].id))
                   IN /\ OnLegacyClock(EntriesOfArea(schedule[1].entries, event.areas[i].id))
                      /\ schedule[1].stats.areaStats[i].matchCount = M
                      /\ schedule[1].stats.areaStats[i].duration =
                             IF M = 0 THEN 0
                             ELSE M * (event.fightDuration + event.rotationTime)
                                  - event.rotationTime

\* a Circle Method run has returned seven entries of two groups, with a rotation time
C28_Witness ==
    /\ pc = "legacyDone"
    /\ event.rotationTime = 30
    /\ Len(event.areas[1].groups) = 2
    /\ Len(schedule[1].entries) >= 7
    /\ schedule[1].stats.areaStats[1].duration
           = Len(schedule[1].entries) * (event.fightDuration + 30) - 30

\* the areas for which more than one cycle was generated: those of the INFO warnings
\* of lines 355-362
AreasWithSeveralCycles ==
    {aid \in AreaIds :
        \E w \in 1..Len(warnings) :
            /\ warnings[w].type = "INFO"
            /\ warnings[w].severity = "info"
            /\ warnings[w].affectedItems = <<aid>>}

\* C30: whenever more than one cycle is generated for an area, the last entry of that
\* area ends no later than windowEnd, whatever the rotation time
C30_CyclesFitWindow ==
    pc = "legacyDone" =>
        \A aid \in AreasWithSeveralCycles :
            LET es == EntriesOfArea(schedule[1].entries, aid)
            IN es # <<>> => es[Len(es)].endTimeSeconds <= parseTime(event.endTime)

----------------------------------------------------------------------------
\* The timeline of an area of the time-boxed path

\* consecutive entries are a rotation apart at least, and numbered 1, 2, 3, ...
RotationApart(es) ==
    /\ \A k \in 1..Len(es) : es[k].sequenceNumber = k
    /\ \A k \in 1..(Len(es) - 1) :
           es[k + 1].startTimeSeconds >= es[k].endTimeSeconds + event.rotationTime
    /\ \A j, k \in 1..Len(es) :
           j < k => es[j].endTimeSeconds <= es[k].startTimeSeconds

\* C29: the entries of an area do not overlap, each starts at least rotationTime after
\* the end of the one before, exactly rotationTime after it when no idle clock jump came
\* between the two commits (and later when one did), and their sequence numbers are
\* 1, 2, 3, ...
C29_AreaTimeline ==
    /\ [](\A aid \in AreaIds :
              /\ RotationApart(EntriesOfArea(AllEntries, aid))
              /\ \A i \in 1..Len(schedule) :
                     RotationApart(EntriesOfArea(schedule[i].entries, aid)))
    /\ [][ (CommitStep /\ entries # <<>>) =>
               LET prev == entries[Len(entries)]
                   next == entries'[Len(entries')]
               IN IF lastStep = "idle"
                  THEN next.startTimeSeconds > prev.endTimeSeconds + event.rotationTime
                  ELSE next.startTimeSeconds = prev.endTimeSeconds + event.rotationTime
         ]_vars

\* the returned entries of an area have a pair of neighbours exactly a rotation apart
\* and a pair further apart, after an idle jump
C29_Witness ==
    /\ pc = "done"
    /\ event.rotationTime = 30
    /\ LET es == schedule[1].entries
       IN /\ Len(es) >= 3
          /\ \E k \in 1..(Len(es) - 1) :
                 es[k + 1].startTimeSeconds = es[k].endTimeSeconds + 30
          /\ \E k \in 1..(Len(es) - 1) :
                 es[k + 1].startTimeSeconds > es[k].endTimeSeconds + 30

----------------------------------------------------------------------------
\* Advisory warnings of the time-boxed path

\* the number of entries of es in which the athlete id fights
MatchesOf(es, id) == Cardinality({i \in 1..Len(es) : Involves(es[i], id)})

\* max - min matches per athlete over all athletes of the event
GlobalGap(es) ==
    LET counts == {MatchesOf(es, a.id) : a \in Range(allAthletes(event))}
    IN IF counts = {} THEN 0
       ELSE (CHOOSE x \in counts : \A y \in counts : x >= y)
            - (CHOOSE x \in counts : \A y \in counts : x <= y)

\* the sum of n(n-1)/2 over the groups of the event
TotalTheoretical ==
    SumSeq([k \in 1..Len(allGroups(event)) |->
              (Len(allGroups(event)[k].athletes)
               * (Len(allGroups(event)[k].athletes) - 1)) \div 2])

\* the advisory warnings of one kind among the returned warnings
Advisories(msg) ==
    SelectSeq(warnings, LAMBDA w : w.type = "INFO" /\ w.severity = "warning"
                                   /\ w.message = msg)

\* C31: a run that reaches the advisory step returns one equity warning (type
\* INFO, severity warning) exactly when the gap between the most and the least
\* matches per athlete, over all athletes of the event, is greater than 2, and
\* one low-completeness warning exactly when scheduled matches / theoretical
\* matches is below 50%; the returned schedule holds the scheduled entries
\* unchanged and carries the warnings.
C31_AdvisoryWarnings ==
    (pc = "done" /\ Feasible) =>
        /\ Len(Advisories("Equite non optimale"))
             = (IF GlobalGap(allEntries) > 2 THEN 1 ELSE 0)
        /\ Len(Advisories("Completude faible"))
             = (IF TotalTheoretical > 0 /\ 2 * Len(allEntries) < TotalTheoretical
                THEN 1 ELSE 0)
        /\ schedule[1].entries = allEntries
        /\ schedule[1].warnings = warnings

\* a finished run whose gap is above 2: the equity warning is returned with the
\* entries, and the run is too complete for the low-completeness warning
C31_Witness ==
    /\ pc = "done"
    /\ Feasible
    /\ GlobalGap(allEntries) > 2
    /\ Len(Advisories("Equite non optimale")) = 1
    /\ Len(Advisories("Completude faible")) = 0
    /\ Len(schedule[1].entries) >= 3

----------------------------------------------------------------------------
\* Fairness statistics of the time-boxed path

\* the positions of es whose unordered pair occurs at an earlier position
RematchPositions(es) ==
    {i \in 1..Len(es) : \E j \in 1..(i - 1) : PairOf(es[j]) = PairOf(es[i])}

\* the unordered pairs scheduled in es
DistinctPairs(es) == {PairOf(es[i]) : i \in 1..Len(es)}

\* the group of the event with the given id
GroupById(gid) == CHOOSE g \in Range(allGroups(event)) : g.id = gid

\* C32: in the statistics of a finished run, rematchesCount is the number of
\* entries whose unordered pair was already scheduled earlier, which is the
\* number of entries minus the number of distinct unordered pairs; every group
\* of n athletes reports theoreticalMax = n(n-1)/2, its own number of entries as
\* totalMatches, and completeness = totalMatches / theoreticalMax * 100.
C32_RematchesAndCompleteness ==
    (pc = "done" /\ Feasible) =>
        LET stats == schedule[1].stats.timeBoxedStats
        IN /\ stats.totalMatchesScheduled = Len(allEntries)
           /\ stats.rematchesCount = Cardinality(RematchPositions(allEntries))
           /\ stats.rematchesCount
                = stats.totalMatchesScheduled - Cardinality(DistinctPairs(allEntries))
           /\ Len(stats.groupStats) = Len(allGroups(event))
           /\ \A k \in 1..Len(stats.groupStats) :
                LET gs == stats.groupStats[k]
                    n == Len(GroupById(gs.groupId).athletes)
                IN /\ 2 * gs.theoreticalMax = n * (n - 1)
                   /\ gs.totalMatches
                        = Cardinality({i \in 1..Len(allEntries) :
                                         allEntries[i].groupId = gs.groupId})
                   /\ gs.theoreticalMax > 0 =>
                        gs.completenessPercentage.num * gs.theoreticalMax
                          = gs.totalMatches * 100 * gs.completenessPercentage.den

\* a finished run with rematches and a group that is partly scheduled
C32_Witness ==
    /\ pc = "done"
    /\ Feasible
    /\ Cardinality(RematchPositions(allEntries)) >= 2
    /\ schedule[1].stats.timeBoxedStats.rematchesCount >= 2
    /\ Cardinality(DistinctPairs(allEntries)) >= 2
    /\ \E k \in 1..Len(schedule[1].stats.timeBoxedStats.groupStats) :
         LET gs == schedule[1].stats.timeBoxedStats.groupStats[k]
         IN gs.theoreticalMax >= 3 /\ gs.totalMatches > 0
            /\ gs.totalMatches < gs.theoreticalMax

----------------------------------------------------------------------------
\* Consecutive fights in the legacy schedule

\* the event has one area holding one group of four athletes
SingleGroupOfFour ==
    /\ Len(event.areas) = 1
    /\ Len(event.areas[1].groups) = 1
    /\ Len(event.areas[1].groups[1].athletes) = 4

\* the positions k where an athlete of entry k fights again in entry k + 1
ConsecutiveFights(es) ==
    {k \in 1..(Len(es) - 1) : PairOf(es[k]) \cap PairOf(es[k + 1]) # {}}

\* C33: in the legacy schedule of a single group of four athletes with one
\* cycle, no athlete fights in two consecutive entries
C33_NoConsecutiveFight ==
    (pc = "legacyDone" /\ SingleGroupOfFour /\ AreasWithSeveralCycles = {}) =>
        ConsecutiveFights(schedule[1].entries) = {}

----------------------------------------------------------------------------
\* Time-boxed runs whose minimum rest is covered by the rotation

\* the minimum rest is over when the rotation is: every athlete is available
\* again at the next slot of the area
RestWithinRotation == minRestSeconds <= event.rotationTime

\* the entries scheduled so far for the group, in schedule order
ScheduledOfGroup(gid) == SelectSeq(AllEntries, LAMBDA e : e.groupId = gid)

Min(a, b) == IF a <= b THEN a ELSE b

\* C34: in a time-boxed run with minRestSeconds <= rotationTime, at every moment
\* and for every group of n athletes, the first min(k, n(n-1)/2) entries of the
\* group (k the number of its entries) are pairwise distinct unordered pairs:
\* the group completes a full round-robin before its first rematch
C34_RoundRobinFirst ==
    (pc \in {"loop", "areas", "done"} /\ RestWithinRotation) =>
        \A g \in Range(allGroups(event)) :
            LET es == ScheduledOfGroup(g.id)
                n == Len(g.athletes)
                m == Min(Len(es), (n * (n - 1)) \div 2)
            IN \A i, j \in 1..m : i # j => PairOf(es[i]) # PairOf(es[j])

\* a group of four has had its six pairs once each and then a rematch
C34_Witness ==
    /\ RestWithinRotation
    /\ pc = "loop"
    /\ \E g \in Range(allGroups(event)) :
         LET es == ScheduledOfGroup(g.id)
         IN /\ Len(g.athletes) = 4
            /\ Len(es) >= 7
            /\ Cardinality({PairOf(es[i]) : i \in 1..6}) = 6
            /\ \E i \in 1..6 : PairOf(es[7]) = PairOf(es[i])

\* every pair of athletes of group g has fought at least once
Saturated(g) ==
    \A a, b \in DOMAIN AthleteStatesOf(g) :
        a # b => b \in AthleteStatesOf(g)[a].opponents

\* the gap between the highest and the lowest matchCount of the athletes of g
MatchCountGap(g) ==
    LET counts == {AthleteStatesOf(g)[a].matchCount : a \in DOMAIN AthleteStatesOf(g)}
    IN (CHOOSE x \in counts : \A y \in counts : x >= y)
       - (CHOOSE x \in counts : \A y \in counts : x <= y)

\* C35: in a time-boxed run with minRestSeconds <= rotationTime, once a group of
\* n athletes has had all its n(n-1)/2 distinct pairs scheduled, after every later
\* commit the gap between the highest and the lowest matchCount among the
\* athletes of the group is at most 1
C35_GapAfterSaturation ==
    (pc = "loop" /\ RestWithinRotation) =>
        \A g \in DOMAIN groupStates :
            LET n == Cardinality(DOMAIN AthleteStatesOf(g))
            IN (Saturated(g) /\ 2 * groupStates[g].totalMatches > n * (n - 1)) =>
                   MatchCountGap(g) <= 1

\* a group of four past its round-robin, three commits later: the gap is 1
C35_Witness ==
    /\ pc = "loop"
    /\ RestWithinRotation
    /\ lastStep = "commit"
    /\ \E g \in DOMAIN groupStates :
         /\ Cardinality(DOMAIN AthleteStatesOf(g)) = 4
         /\ Saturated(g)
         /\ groupStates[g].totalMatches = 9
         /\ MatchCountGap(g) = 1

\* totalMatches(g)/size(g) - totalMatches(h)/size(h) <= 1/size(g), for counts
\* tg, th and sizes sg, sh >= 1, without division
BalancedWith(tg, sg, th, sh) == tg * sh - th * sg <= sh

\* the number of entries of the running area that belong to the group
TotalMatchesOf(gid) == Len(SelectSeq(entries, LAMBDA e : e.groupId = gid))

\* C36 as stated: in a time-boxed run with minRestSeconds <= rotationTime, after
\* every commit any two groups g and h of the same area satisfy
\* totalMatches(g)/size(g) - totalMatches(h)/size(h) <= 1/size(g)
C36_BalanceBetweenAllGroups ==
    (pc = "loop" /\ RestWithinRotation) =>
        \A i, j \in 1..Len(area.groups) :
            LET g == area.groups[i]
                h == area.groups[j]
            IN (Len(g.athletes) >= 1 /\ Len(h.athletes) >= 1) =>
                   BalancedWith(TotalMatchesOf(g.id), Len(g.athletes),
                                TotalMatchesOf(h.id), Len(h.athletes))

\* C36: in a time-boxed run with minRestSeconds <= rotationTime, after every
\* commit any two groups g and h of the same area that have two athletes or more
\* satisfy totalMatches(g)/size(g) - totalMatches(h)/size(h) <= 1/size(g); two
\* such groups of equal size never differ by more than one scheduled match
C36_BalanceBetweenGroups ==
    (pc = "loop" /\ RestWithinRotation) =>
        \A g, h \in DOMAIN groupStates :
            LET sg == Cardinality(DOMAIN AthleteStatesOf(g))
                sh == Cardinality(DOMAIN AthleteStatesOf(h))
            IN /\ BalancedWith(groupStates[g].totalMatches, sg,
                               groupStates[h].totalMatches, sh)
               /\ sg = sh =>
                    groupStates[g].totalMatches - groupStates[h].totalMatches <= 1

\* two groups of different sizes share an area and several matches have been
\* committed for each; the larger group is ahead in matches
C36_Witness ==
    /\ pc = "loop"
    /\ RestWithinRotation
    /\ lastStep = "commit"
    /\ \E g, h \in DOMAIN groupStates :
         /\ Cardinality(DOMAIN AthleteStatesOf(g)) > Cardinality(DOMAIN AthleteStatesOf(h))
         /\ groupStates[h].totalMatches >= 2
         /\ groupStates[g].totalMatches > groupStates[h].totalMatches + 1

----------------------------------------------------------------------------
\* Well-formed entries

\* lines 647-681 and 135-153: what an entry refers to exists in the event
WellFormedEntry(e) ==
    /\ e.athlete1Id # e.athlete2Id
    /\ BYE \notin PairOf(e)
    /\ \E i \in 1..Len(event.areas) :
         /\ event.areas[i].id = e.areaId
         /\ \E j \in 1..Len(event.areas[i].groups) :
              /\ event.areas[i].groups[j].id = e.groupId
              /\ PairOf(e) \subseteq Range(event.areas[i].groups[j].athletes)

\* the intervals [start, end) of the two entries overlap
Overlap(e, f) ==
    /\ e.startTimeSeconds < f.endTimeSeconds
    /\ f.startTimeSeconds < e.endTimeSeconds

NoAthleteOverlap(es) ==
    \A i, j \in 1..Len(es) :
        (i # j /\ PairOf(es[i]) \cap PairOf(es[j]) # {}) => ~Overlap(es[i], es[j])

\* C37: on both paths every entry, emitted or returned, pairs two distinct
\* athletes that both belong to the entry's group, that group belongs to the
\* entry's area, neither athlete is the synthetic BYE, and no athlete is in two
\* entries whose [start, end) intervals overlap
C37_WellFormedEntries ==
    /\ \A k \in 1..Len(AllEntries) : WellFormedEntry(AllEntries[k])
    /\ NoAthleteOverlap(AllEntries)
    /\ \A s \in 1..Len(schedule) :
         /\ \A k \in 1..Len(schedule[s].entries) : WellFormedEntry(schedule[s].entries[k])
         /\ NoAthleteOverlap(schedule[s].entries)

\* a Circle Method run has returned the entries of a group of three (one BYE per
\* round) played back to back with no rotation
C37_Witness ==
    /\ pc = "legacyDone"
    /\ event.rotationTime = 0
    /\ Len(event.areas[1].groups) >= 1
    /\ Len(event.areas[1].groups[1].athletes) = 3
    /\ Len(schedule[1].entries) >= 3
    /\ \E k \in 1..(Len(schedule[1].entries) - 1) :
         /\ PairOf(schedule[1].entries[k]) \cap PairOf(schedule[1].entries[k + 1]) # {}
         /\ schedule[1].entries[k].endTimeSeconds
              = schedule[1].entries[k + 1].startTimeSeconds

----------------------------------------------------------------------------
\* Work conservation of the time-boxed path

\* at time t some group of the pass has two athletes whose rest is over
PairAvailableAt(t) ==
    \E g \in DOMAIN groupStates :
        \E a, b \in DOMAIN AthleteStatesOf(g) :
            /\ a # b
            /\ AthleteStatesOf(g)[a].availableAt <= t
            /\ AthleteStatesOf(g)[b].availableAt <= t

\* the pass of an area has just ended (its state is still in place)
PassEnded == pc = "areas" /\ lastStep \in {"exit", "break"}

\* C38: for a feasible window, every area with at least one group of 2 or more
\* athletes has its first entry starting exactly at windowStart, and when the
\* pass of an area ends there is no time t with clock <= t and
\* t + fightDuration <= windowEnd at which some group has two athletes with
\* availableAt <= t
C38_WorkConservation ==
    /\ PassEnded =>
         \A t \in currentTime..(endTimeSeconds - event.fightDuration) :
             ~PairAvailableAt(t)
    /\ (pc = "done" /\ Feasible) =>
         \A i \in 1..Len(event.areas) :
             HasValidGroup(event.areas[i]) =>
                 LET es == EntriesOfArea(schedule[1].entries, event.areas[i].id)
                 IN /\ es # <<>>
                    /\ es[1].startTimeSeconds = startTimeSeconds

\* a pass has ended on the break of the idle branch with room left in the window
\* for one more fight: every athlete pair is still resting until the window ends
C38_Witness ==
    /\ PassEnded
    /\ lastStep = "break"
    /\ entries = <<>>
    /\ allEntries # <<>>
    /\ currentTime + event.fightDuration <= endTimeSeconds
    /\ allEntries[1].startTimeSeconds = startTimeSeconds
    /\ \A t \in currentTime..(endTimeSeconds - event.fightDuration) : ~PairAvailableAt(t)

----------------------------------------------------------------------------
\* Athlete stats against the rest warnings

\* the positions of the entries of the athlete in the validated list
ValPositions(id) == {i \in 1..Len(valEntries) : Involves(valEntries[i], id)}

\* the pairs <<i, j>> of consecutive entries of the athlete, each with the rest
\* next.start - prev.end between them
ValRests(id) ==
    {<<<<i, j>>, valEntries[j].startTimeSeconds - valEntries[i].endTimeSeconds>> :
        <<i, j>> \in {p \in ValPositions(id) \X ValPositions(id) :
                        ValConsecutive(id, p[1], p[2])}}

====
